---- MODULE Spec2Model ----
(***************************************************************************)
(* Verification model of the kepler metric collection pipeline:            *)
(*   - pkg/power/components: node-energy backend selection and dispatch    *)
(*   - pkg/collector: accelerator update, node energy update, tick order   *)
(***************************************************************************)
EXTENDS Integers, Sequences, FiniteSets, TLC

\* Bounds of the model
MaxCalls == 3
MaxTick == 2
MaxNodes == 3
MaxScrapes == 2
MaxServed == 2

VARIABLES
    \* ---- package components (power backend) ----
    phase,            \* "load": before init() ran, "run": after
    sysfsSupported,   \* what sysfsImpl.IsSystemCollectionSupported() reports
    msrSupported,     \* what msrImpl.IsSystemCollectionSupported() reports
    useMSR,           \* the MSR feature flag
    powerImpl,        \* the selected backend
    lastCall,         \* name of the last package-level call, "none" at first
    lastDispatch,     \* backend that served the last package-level call
    nCalls,           \* number of package-level calls made so far
    \* ---- package collector (the tick pipeline) ----
    tpc,              \* the step the collector is about to run, or "off"
    tick,             \* number of ticks finished
    seq,              \* snapshot sequence number
    pidCache,         \* the resolver's pid -> container id cache
    EnabledGPU,       \* config.EnabledGPU
    acpiSupported,    \* what acpiPowerMeter.IsPowerSupported() reports
    platformModelEnabled,    \* model.IsNodePlatformPowerModelEnabled()
    componentModelEnabled,   \* model.IsNodeComponentPowerModelEnabled()
    ContainersMetrics,       \* container id -> container record
    NodeMetrics,             \* the node record
    NodeCPUFrequency,        \* last CPU frequency reading
    tickLog,          \* the steps run so far in the current tick, in order
    accelIn,          \* what the devices returned to the last accelerator update
    platformUpd,      \* platform-energy writes to the node record this tick
    componentsUpd,    \* component-energy writes to the node record this tick
    cyclesWas,        \* container id -> cycles aggregate before this tick's tracing read
    accelQueried,     \* the devices the last accelerator update queried, in order
    failRun,          \* device -> its failed queries in a row up to the last update
    failRunWas,       \* failRun as it was before the last accelerator update
    gpuAdds,          \* number of AddNodeGPUEnergy calls made so far
    tickLimit,        \* number of ticks the run is followed for
    lostWrites,       \* <<container id, what>> an accelerator write found missing
    \* ---- the available-feature catalogs and their readers ----
    AvailableCounters,       \* collector_metric.AvailableCounters
    catalogReady,     \* whether the catalogs have been populated
    estimatorInit,    \* whether, and from which names, the estimator was initialised
    startupLog,       \* main's startup calls made so far, in order
    \* ---- exposition (scrapes run beside the collector task) ----
    published,        \* the snapshot handed to the exposition adapter at publish
    scrapeView,       \* the view the scrape in progress captured
    scrapePos,        \* 0: no scrape in progress, else the item it reads next
    scrapeSeen,       \* what the latest scrape has emitted so far, in order
    scrapeStart,      \* the snapshot that was published when the scrape began
    nScrapes,         \* number of scrapes begun so far
    \* ---- cmd/exporter.go (the process) ----
    mpc,              \* where main is, "test" when the collector is driven directly
    deferred,         \* main's deferred calls, the last one registered first
    sigHandler,       \* whether the SIGINT/SIGTERM goroutine is installed
    exitCode,         \* "none" while the process runs, else its exit status
    exitCause,        \* what made the process exit, "none" while it runs
    collecting,       \* whether the collector task runs
    serving,          \* whether the HTTP server runs
    accelInit,        \* whether accelerator.Init() was called
    unwound,          \* the deferred calls that have run, in order
    nServed,          \* health and index requests answered so far
    \* ---- pkg/cgroup (the slice handler) ----
    KubePodExists,    \* whether os.Stat(KubePodCGroupPath) succeeds
    SystemExists,     \* whether os.Stat(SystemCGroupPath) succeeds
    LegacyExists,     \* whether the per-controller tree exists
    SliceHandlerInstance,    \* the handler, NilSliceHandler before it is set
    statLog,          \* the paths os.Stat was called on, in order
    statReaders,      \* the handler's cache: container id -> its stat readers
    searches,         \* the container ids SearchByContainerID was called for, in order
    lastTry,          \* the last call on the cache: its name, its id, whether the id was cached
    tree,             \* the directories and files below the folder a scope is looked for in
    findPath,         \* the argument of the findContainerScope call in progress
    findResult,       \* what findContainerScope returned, "" while it runs
    findDone,         \* whether findContainerScope has returned
    findDepth         \* how many times findContainerScope has called itself

backendVars == <<phase, sysfsSupported, msrSupported, useMSR, powerImpl,
                 lastCall, lastDispatch, nCalls>>

envVars == <<pidCache, EnabledGPU, acpiSupported, platformModelEnabled,
             componentModelEnabled>>

vars == <<phase, sysfsSupported, msrSupported, useMSR, powerImpl,
          lastCall, lastDispatch, nCalls,
          tpc, tick, seq, pidCache, EnabledGPU, acpiSupported,
          platformModelEnabled, componentModelEnabled,
          ContainersMetrics, NodeMetrics, NodeCPUFrequency,
          tickLog, accelIn, platformUpd, componentsUpd, cyclesWas,
          accelQueried, failRun, failRunWas, gpuAdds, tickLimit, lostWrites,
          AvailableCounters, catalogReady, estimatorInit, startupLog,
          published, scrapeView, scrapePos, scrapeSeen, scrapeStart, nScrapes,
          mpc, deferred, sigHandler, exitCode, exitCause, collecting, serving,
          accelInit, unwound, nServed,
          KubePodExists, SystemExists, LegacyExists, SliceHandlerInstance,
          statLog, statReaders, searches, lastTry,
          tree, findPath, findResult, findDone, findDepth>>

scrapeVars == <<scrapeView, scrapePos, scrapeSeen, scrapeStart, nScrapes>>

procVars == <<mpc, deferred, sigHandler, exitCode, exitCause, collecting,
              serving, accelInit, unwound, nServed>>

readerVars == <<statReaders, searches, lastTry>>

scopeVars == <<tree, findPath, findResult, findDone, findDepth>>

cgroupVars == <<KubePodExists, SystemExists, LegacyExists,
                SliceHandlerInstance, statLog, readerVars, scopeVars>>

catalogVars == <<AvailableCounters, catalogReady, estimatorInit, startupLog>>

tickVars == <<tpc, tick, seq, pidCache, EnabledGPU, acpiSupported,
              platformModelEnabled, componentModelEnabled,
              ContainersMetrics, NodeMetrics, NodeCPUFrequency,
              tickLog, accelIn, platformUpd, componentsUpd, cyclesWas,
          accelQueried, failRun, failRunWas, gpuAdds, tickLimit, lostWrites,
          AvailableCounters, catalogReady, estimatorInit, startupLog,
          published, scrapeView, scrapePos, scrapeSeen, scrapeStart, nScrapes,
          mpc, deferred, sigHandler, exitCode, exitCause, collecting, serving,
          accelInit, unwound, nServed,
          KubePodExists, SystemExists, LegacyExists, SliceHandlerInstance,
          statLog, statReaders, searches, lastTry,
          tree, findPath, findResult, findDone, findDepth>>

\* ------------------------------------------------------------------------
\* package components: backend selection (init) and dispatch
\* ------------------------------------------------------------------------

sysfsImpl == "sysfs"
msrImpl == "msr"
dummyImpl == "dummy"

Backends == {sysfsImpl, msrImpl, dummyImpl}

PowerCalls ==
    {"GetEnergyFromDram", "GetEnergyFromCore", "GetEnergyFromUncore",
     "GetEnergyFromPackage", "GetNodeComponentsEnergy",
     "IsSystemCollectionSupported", "StopPower"}

\* Mutant: the MSR backend is taken without looking at its flag.
SelectBackendIgnoresFlag(sysfsOk, msrOk, flag) ==
    IF sysfsOk
    THEN "sysfs"
    ELSE IF msrOk
         THEN "msr"
         ELSE "dummy"

\* The nested if/else of init(): the backend powerImpl is set to.
SelectBackend(sysfsOk, msrOk, flag) ==
    IF sysfsOk
    THEN sysfsImpl
    ELSE IF msrOk /\ flag
         THEN msrImpl
         ELSE dummyImpl

\* func init()
init ==
    /\ phase = "load"
    /\ powerImpl' = SelectBackend(sysfsSupported, msrSupported, useMSR)
    /\ phase' = "run"
    /\ UNCHANGED <<sysfsSupported, msrSupported, useMSR,
                   lastCall, lastDispatch, nCalls>>
    /\ UNCHANGED tickVars

\* The backend a package-level function forwards to: all seven are
\* "return powerImpl.<same method>()".
DispatchTarget(call, impl) == impl

\* Mutant: StopPower resets the selection to the dummy backend.
ImplAfterCallStopResets(call, impl) ==
    IF call = "StopPower" THEN dummyImpl ELSE impl

\* The value of powerImpl after a package-level function returns.
ImplAfterCall(call, impl) == impl

\* GetEnergyFromDram, GetEnergyFromCore, GetEnergyFromUncore,
\* GetEnergyFromPackage, GetNodeComponentsEnergy,
\* IsSystemCollectionSupported, StopPower
PowerCall(call) ==
    /\ phase = "run"
    /\ nCalls < MaxCalls
    /\ lastCall' = call
    /\ lastDispatch' = DispatchTarget(call, powerImpl)
    /\ powerImpl' = ImplAfterCall(call, powerImpl)
    /\ nCalls' = nCalls + 1
    /\ UNCHANGED <<phase, sysfsSupported, msrSupported, useMSR>>
    /\ UNCHANGED tickVars

GetEnergyFromDram == PowerCall("GetEnergyFromDram")
GetEnergyFromCore == PowerCall("GetEnergyFromCore")
GetEnergyFromUncore == PowerCall("GetEnergyFromUncore")
GetEnergyFromPackage == PowerCall("GetEnergyFromPackage")
GetNodeComponentsEnergy == PowerCall("GetNodeComponentsEnergy")
IsSystemCollectionSupported == PowerCall("IsSystemCollectionSupported")
StopPower == PowerCall("StopPower")

\* ------------------------------------------------------------------------
\* Exact fractions (energy shares are ratios of integers)
\* ------------------------------------------------------------------------

RECURSIVE GCD(_, _)
GCD(a, b) == IF b = 0 THEN a ELSE GCD(b, a % b)

Abs(n) == IF n < 0 THEN -n ELSE n

\* The fraction n/d (d > 0) in lowest terms.
Rat(n, d) ==
    LET g == GCD(Abs(n), d)
    IN  [num |-> n \div g, den |-> d \div g]

RZero == Rat(0, 1)
RInt(n) == Rat(n, 1)
RAdd(a, b) == Rat(a.num * b.den + b.num * a.den, a.den * b.den)
RSub(a, b) == Rat(a.num * b.den - b.num * a.den, a.den * b.den)
RMax0(a) == IF a.num < 0 THEN RZero ELSE a

\* ------------------------------------------------------------------------
\* Counter channels
\* ------------------------------------------------------------------------

\* A fresh unsigned channel.
NewUInt64Stat == [curr |-> 0, aggr |-> 0, prev |-> 0]

\* Delta push: AddNewCurr(v) adds the increment to curr and to aggr.
AddNewCurr(ch, v) == [ch EXCEPT !.curr = @ + v, !.aggr = @ + v]

\* commit(): curr = max(0, aggr - prev); prev = aggr.
Commit(ch) ==
    [ch EXCEPT !.curr = IF ch.aggr > ch.prev THEN ch.aggr - ch.prev ELSE 0,
               !.prev = ch.aggr]

\* Mutant: the first aggregate already yields a current value.
SetNewAggrFirstCounts(ch, v) ==
    IF v < ch.aggr
    THEN [curr |-> v, aggr |-> v, prev |-> 0]
    ELSE [curr |-> v - ch.aggr, aggr |-> v, prev |-> ch.aggr]

\* Mutant: a lower aggregate is not taken as a restart; the difference is
\* clamped at 0.
SetNewAggrNoRestart(ch, v) ==
    IF ch.aggr = 0
    THEN [ch EXCEPT !.aggr = v, !.prev = v]
    ELSE IF v < ch.aggr
         THEN [curr |-> 0, aggr |-> v, prev |-> v]
         ELSE [curr |-> v - ch.aggr, aggr |-> v, prev |-> ch.aggr]

\* Aggregate write: the first aggregate only sets the baseline (a current
\* value needs two aggregates); a lower aggregate is a restart from zero,
\* whose current value is the new aggregate; otherwise curr is the
\* difference. prev is the baseline curr was taken against, so that a commit
\* after the write yields the same current value.
SetNewAggr(ch, v) ==
    IF ch.aggr = 0
    THEN [ch EXCEPT !.aggr = v, !.prev = v]
    ELSE IF v < ch.aggr
         THEN [curr |-> v, aggr |-> v, prev |-> 0]
         ELSE [curr |-> v - ch.aggr, aggr |-> v, prev |-> ch.aggr]

\* A fresh fractional (energy share) channel, its delta push and its commit.
NewEnergyStat == [curr |-> RZero, aggr |-> RZero, prev |-> RZero]

AddNewCurrEnergy(ch, v) ==
    [ch EXCEPT !.curr = RAdd(@, v), !.aggr = RAdd(@, v)]

CommitEnergy(ch) ==
    [ch EXCEPT !.curr = RMax0(RSub(ch.aggr, ch.prev)), !.prev = ch.aggr]

\* ------------------------------------------------------------------------
\* Container records and the identity resolver
\* ------------------------------------------------------------------------

systemProcessName == "system_processes"

ContainerIDs == {"containerA", "containerB", systemProcessName}

Pids == {0, 1, 2}

\* What the resolver's cache may hold for a pid; "" is a pid it cannot map.
CacheValues == {"containerA", "containerB", ""}

Components == {"pkg", "core", "dram"}

\* The usage channel a component's energy is apportioned by.
ResourceKey(comp) == IF comp = "dram" THEN "cacheMiss" ELSE "cycles"

NewContainerMetrics ==
    [cycles    |-> NewUInt64Stat,
     cacheMiss |-> NewUInt64Stat,
     cgroupCPU |-> NewUInt64Stat,
     smUtil    |-> NewUInt64Stat,
     memUtil   |-> NewUInt64Stat,
     energy    |-> [c \in Components |-> NewEnergyStat]]

\* cgroup.GetContainerIDFromPID: the container id, or an error.
GetContainerIDFromPID(cache, pid) ==
    IF cache[pid] = ""
    THEN [id |-> "", err |-> TRUE]
    ELSE [id |-> cache[pid], err |-> FALSE]

\* Mutant: an existing record is replaced by a fresh one.
createContainersMetricsAlways(cm, cid) ==
    [c \in (DOMAIN cm) \cup {cid} |->
        IF c = cid THEN NewContainerMetrics ELSE cm[c]]

\* createContainersMetricsIfNotExist: a record is created lazily and an
\* existing one is never replaced.
createContainersMetricsIfNotExist(cm, cid) ==
    IF cid \in DOMAIN cm
    THEN cm
    ELSE [c \in (DOMAIN cm) \cup {cid} |->
            IF c = cid THEN NewContainerMetrics ELSE cm[c]]

\* ------------------------------------------------------------------------
\* Tracing and cgroup sources
\* ------------------------------------------------------------------------

\* The container a sample of pid is attributed to: the resolved container,
\* or the system-process container when the resolver fails.
AttributedContainer(cache, pid) ==
    LET r == GetContainerIDFromPID(cache, pid)
    IN  IF r.err THEN systemProcessName ELSE r.id

\* One entry of the tracing map: resolve, fetch or create the record, push
\* the deltas.
ApplyTraceEntry(cm, cache, pid, e) ==
    LET containerID == AttributedContainer(cache, pid)
        cm1 == createContainersMetricsIfNotExist(cm, containerID)
    IN  [cm1 EXCEPT ![containerID].cycles = AddNewCurr(@, e.cycles),
                    ![containerID].cacheMiss = AddNewCurr(@, e.cacheMiss)]

RECURSIVE ApplyTraceMap(_, _, _)
ApplyTraceMap(cm, cache, m) ==
    IF DOMAIN m = {}
    THEN cm
    ELSE LET pid == CHOOSE q \in DOMAIN m : TRUE
             rest == [q \in (DOMAIN m) \ {pid} |-> m[q]]
         IN  ApplyTraceMap(ApplyTraceEntry(cm, cache, pid, m[pid]), cache, rest)

\* One entry of a tracing map read cumulatively: resolve, fetch or create the
\* record, write the aggregates.
ApplyTraceEntryCumulative(cm, cache, pid, e) ==
    LET containerID == AttributedContainer(cache, pid)
        cm1 == createContainersMetricsIfNotExist(cm, containerID)
    IN  [cm1 EXCEPT ![containerID].cycles = SetNewAggr(@, e.cycles),
                    ![containerID].cacheMiss = SetNewAggr(@, e.cacheMiss)]

RECURSIVE ApplyTraceMapCumulative(_, _, _)
ApplyTraceMapCumulative(cm, cache, m) ==
    IF DOMAIN m = {}
    THEN cm
    ELSE LET pid == CHOOSE q \in DOMAIN m : TRUE
             rest == [q \in (DOMAIN m) \ {pid} |-> m[q]]
         IN  ApplyTraceMapCumulative(
                 ApplyTraceEntryCumulative(cm, cache, pid, m[pid]), cache, rest)

\* Cgroup values are cumulative: an aggregate write per known container;
\* a missing file (0 here) is an absent update.
ApplyCgroupReads(cm, reads) ==
    [c \in DOMAIN cm |->
        IF reads[c] = 0
        THEN cm[c]
        ELSE [cm[c] EXCEPT !.cgroupCPU = SetNewAggr(@, reads[c])]]

\* ------------------------------------------------------------------------
\* Accelerator source: Collector.updateAcceleratorMetrics
\* ------------------------------------------------------------------------

\* accelerator.GetGpus()
Gpus == <<"gpu0", "gpu1">>

\* An empty pid -> sample map.
NoSamples == [q \in {} |-> 0]

\* accelerator.GetProcessResourceUtilizationPerDevice: the samples of the
\* window, or no samples and an error when the query fails.
GetProcessResourceUtilizationPerDevice(outcome) ==
    IF outcome.ok
    THEN [samples |-> outcome.samples, err |-> FALSE]
    ELSE [samples |-> NoSamples, err |-> TRUE]

\* Mutant: the variable keeps the previous device's samples when the query
\* fails.
AssignOnSuccessOnly(old, r) == IF r.err THEN old ELSE r.samples

\* "processesUtilization, err = ...": the variable declared outside the
\* device loop is assigned on every iteration, failed or not.
AssignProcessesUtilization(old, r) == r.samples

\* Mutant: an unresolved pid is attributed to the first known container.
ResolveOrFirstContainer(cache, pid) ==
    LET r == GetContainerIDFromPID(cache, pid)
    IN  IF r.err THEN "containerA" ELSE r.id

\* The container id the loop body ends up with for a pid.
ResolveOrSystem(cache, pid) ==
    LET r == GetContainerIDFromPID(cache, pid)
    IN  IF r.err THEN systemProcessName ELSE r.id

\* Mutant: the SM utilization is written over the current value.
WriteUtilizationOverwrite(rec, su) ==
    [rec EXCEPT !.smUtil = [@ EXCEPT !.curr = su.SmUtil, !.aggr = @ + su.SmUtil],
                !.memUtil = AddNewCurr(@, su.MemUtil)]

\* The two AddNewCurr calls of the loop body.
WriteUtilization(rec, su) ==
    [rec EXCEPT !.smUtil = AddNewCurr(@, su.SmUtil),
                !.memUtil = AddNewCurr(@, su.MemUtil)]

\* config.GPUSMUtilization and config.GPUMemUtilization.
GpuChannels == {"smUtil", "memUtil"}

\* Mutant: a record has the counter channels of the catalog and no other.
CounterStatsKeysCatalogOnly == AvailableCounters

\* The keys of CounterStats in a record NewContainerMetrics makes: the
\* counters of the catalog, and the two GPU channels apart from the catalog.
CounterStatsKeys == AvailableCounters \cup GpuChannels

\* What the two writes for pid find missing: the record after
\* createContainersMetricsIfNotExist, or a GPU channel in CounterStats.
MissingAtWrite(cm, cache, pid) ==
    LET containerID == ResolveOrSystem(cache, pid)
        cm1 == createContainersMetricsIfNotExist(cm, containerID)
    IN  (IF containerID \in DOMAIN cm1 THEN {} ELSE {<<containerID, "record">>})
            \cup {<<containerID, ch>> : ch \in GpuChannels \ CounterStatsKeys}

\* The body of the inner loop, for one (pid, sample) of a device; a write
\* through a channel that CounterStats does not hold changes no record.
ApplyProcessUtilization(cm, cache, pid, su) ==
    LET containerID == ResolveOrSystem(cache, pid)
        cm1 == createContainersMetricsIfNotExist(cm, containerID)
    IN  IF MissingAtWrite(cm, cache, pid) = {}
        THEN [cm1 EXCEPT ![containerID] = WriteUtilization(@, su)]
        ELSE cm1

\* The inner loop over the pids of one device.
RECURSIVE ApplyProcessesUtilization(_, _, _)
ApplyProcessesUtilization(cm, cache, pu) ==
    IF DOMAIN pu = {}
    THEN cm
    ELSE LET pid == CHOOSE q \in DOMAIN pu : TRUE
             rest == [q \in (DOMAIN pu) \ {pid} |-> pu[q]]
         IN  ApplyProcessesUtilization(
                 ApplyProcessUtilization(cm, cache, pid, pu[pid]), cache, rest)

\* The outer loop over the devices; processesUtilization is carried from one
\* iteration to the next.
RECURSIVE DeviceLoop(_, _, _, _, _)
DeviceLoop(cm, cache, gpus, outcomes, processesUtilization) ==
    IF gpus = <<>>
    THEN cm
    ELSE LET r == GetProcessResourceUtilizationPerDevice(outcomes[Head(gpus)])
             pu == AssignProcessesUtilization(processesUtilization, r)
         IN  DeviceLoop(ApplyProcessesUtilization(cm, cache, pu),
                        cache, Tail(gpus), outcomes, pu)

\* ------------------------------------------------------------------------
\* Node record and node energy: updatePlatformEnergy,
\* updateNodeComponentsEnergy, updateNodeAvgCPUFrequency, updateNodeGPUEnergy
\* ------------------------------------------------------------------------

UsageKeys == {"cycles", "cacheMiss", "cgroupCPU", "smUtil", "memUtil"}

Sockets == {0}

Sensors == {"acpi"}

\* The empty energy map, map[string]float64{} or
\* map[int]source.NodeComponentsEnergy{}.
EmptyEnergyMap == [q \in {} |-> 0]

NewNodeMetrics ==
    [usage    |-> [k \in UsageKeys |-> 0],
     energy   |-> [c \in Components |-> NewUInt64Stat],
     platform |-> NewUInt64Stat,
     gpu      |-> NewUInt64Stat]

\* What powerImpl.IsSystemCollectionSupported() answers: the backend's own
\* probe; the dummy backend is never supported.
BackendSupported(impl) ==
    IF impl = sysfsImpl THEN sysfsSupported
    ELSE IF impl = msrImpl THEN msrSupported
    ELSE FALSE

\* Mutant: the power model is preferred whenever it is enabled.
EnergySourceModelFirst(measuredSupported, modelEnabled) ==
    IF modelEnabled THEN "model"
    ELSE IF measuredSupported THEN "measured"
    ELSE "none"

\* The if / else-if of updatePlatformEnergy and updateNodeComponentsEnergy:
\* which source fills the energy map.
EnergySource(measuredSupported, modelEnabled) ==
    IF measuredSupported THEN "measured"
    ELSE IF modelEnabled THEN "model"
    ELSE "none"

\* The energy map handed to the node record.
EnergyMap(src, measured, estimate) ==
    IF src = "measured" THEN measured
    ELSE IF src = "model" THEN estimate
    ELSE EmptyEnergyMap

\* NodeMetrics.AddLastestPlatformEnergy: an aggregate write per sensor.
AddLastestPlatformEnergy(nm, m) ==
    IF "acpi" \in DOMAIN m
    THEN [nm EXCEPT !.platform = SetNewAggr(@, m["acpi"])]
    ELSE nm

\* NodeMetrics.AddNodeComponentsEnergy: an aggregate write per socket and
\* component.
AddNodeComponentsEnergy(nm, m) ==
    IF 0 \in DOMAIN m
    THEN [nm EXCEPT !.energy =
            [c \in Components |-> SetNewAggr(nm.energy[c], m[0][c])]]
    ELSE nm

\* NodeMetrics.AddNodeGPUEnergy: a delta push of the millijoules since the
\* last read.
AddNodeGPUEnergy(nm, e) == [nm EXCEPT !.gpu = AddNewCurr(@, e)]

\* ------------------------------------------------------------------------
\* Commit, roll-up and attribution
\* ------------------------------------------------------------------------

\* commit() of the delta-push usage channels of every container record.
CommitContainers(cm) ==
    [c \in DOMAIN cm |->
        [cm[c] EXCEPT !.cycles = Commit(@),
                      !.cacheMiss = Commit(@),
                      !.smUtil = Commit(@),
                      !.memUtil = Commit(@)]]

RECURSIVE SumCurr(_, _, _)
\* Sum over the container ids in S of the current value of usage channel key.
SumCurr(cm, S, key) ==
    IF S = {}
    THEN 0
    ELSE LET c == CHOOSE x \in S : TRUE
         IN  cm[c][key].curr + SumCurr(cm, S \ {c}, key)

\* NodeMetrics.AddNodeResUsageFromContainerResUsage: the node usage of each
\* resource is the sum of the containers' current usage.
AddNodeResUsageFromContainerResUsage(nm, cm) ==
    [nm EXCEPT !.usage = [k \in UsageKeys |-> SumCurr(cm, DOMAIN cm, k)]]

\* Mutant: the share is taken against the largest container usage.
RECURSIVE MaxCurr(_, _, _)
MaxCurr(cm, S, key) ==
    IF S = {}
    THEN 0
    ELSE LET c == CHOOSE x \in S : TRUE
             m == MaxCurr(cm, S \ {c}, key)
         IN  IF cm[c][key].curr > m THEN cm[c][key].curr ELSE m

ShareOfMax(cm, c, comp, e) ==
    LET key == ResourceKey(comp)
        total == MaxCurr(cm, DOMAIN cm, key)
    IN  IF total = 0 THEN RZero ELSE Rat(e * cm[c][key].curr, total)

\* s_c * E: the share of component energy e of container c, 0 when no
\* container used the resource.
Share(cm, c, comp, e) ==
    LET key == ResourceKey(comp)
        total == SumCurr(cm, DOMAIN cm, key)
    IN  IF total = 0 THEN RZero ELSE Rat(e * cm[c][key].curr, total)

\* The share is pushed as a delta into the energy channel, which is then
\* committed for this interval. Each stage is bound to its value before the
\* next one uses it, so that it is evaluated once.
AttributeChannel(ch, share) ==
    CHOOSE r \in {CommitEnergy(x) :
                    x \in {AddNewCurrEnergy(ch, v) : v \in {share}}} : TRUE

\* The attribute phase, for every container and every component.
AttributeEnergy(cm, nm) ==
    [c \in DOMAIN cm |->
        [cm[c] EXCEPT !.energy =
            [comp \in Components |->
                AttributeChannel(cm[c].energy[comp],
                    Share(cm, c, comp, nm.energy[comp].curr))]]]

\* ------------------------------------------------------------------------
\* Exposition: snapshots and scrapes
\* ------------------------------------------------------------------------

\* The committed state handed to the exposition adapter.
Snapshot(n, cm, nm) == [seq |-> n, cm |-> cm, nm |-> nm]

\* What a scrape enumerates: the container records, then the node record.
ScrapeItems == <<"containers", "node">>

ItemOf(snap, item) == IF item = "containers" THEN snap.cm ELSE snap.nm

\* Mutant: the scrape reads the records the collector is working on.
ScrapeReadLive(view, cm, nm, item) ==
    IF item = "containers" THEN cm ELSE nm

\* The scrape reads an item from the view it captured, never from the
\* records the collector task mutates.
ScrapeRead(view, cm, nm, item) == ItemOf(view, item)

\* ------------------------------------------------------------------------
\* The collector tick
\* ------------------------------------------------------------------------

\* The sample phase on the container records, then their commit.
SampleOrder == <<"tracing", "cgroup", "accelerator", "commit">>

\* Mutant: component energies are read before platform energy.
NodeEnergyOrderComponentsFirst == <<"components", "platform", "freq", "gpu">>

\* Collector.updateNodeEnergyMetrics: the order of its four calls.
NodeEnergyOrder == <<"platform", "components", "freq", "gpu">>

\* Mutant: attribution runs before the roll-up.
AfterAcceleratorAttributeFirst ==
    NodeEnergyOrder \o <<"attribute", "rollup">>

\* Mutant: attribution runs before the node energies are read.
AfterAcceleratorEnergyLast ==
    <<"rollup", "attribute">> \o NodeEnergyOrder

\* Mutant: attribution is the first call after the accelerator update.
AfterAcceleratorAttributeFirstOfAll ==
    <<"attribute", "rollup">> \o NodeEnergyOrder

\* What the collector runs after updateAcceleratorMetrics:
\* updateNodeResourceUsage, updateNodeEnergyMetrics, updateContainerEnergy.
AfterAccelerator == <<"rollup">> \o NodeEnergyOrder \o <<"attribute">>

\* The steps of one tick, in order.
TickOrder == SampleOrder \o AfterAccelerator \o <<"publish">>

IndexOf(step) == CHOOSE i \in 1..Len(TickOrder) : TickOrder[i] = step

\* The step run after step: the calls are sequential, one returns before the
\* next starts; after publish the next tick starts.
Successor(step) ==
    IF IndexOf(step) = Len(TickOrder)
    THEN TickOrder[1]
    ELSE TickOrder[IndexOf(step) + 1]

\* Control of a step: taken at its turn, while the collector task and the
\* process run; then the turn passes on.
Step(name) ==
    /\ collecting
    /\ exitCode = "none"
    /\ tpc = name
    /\ tpc' = Successor(name)
    /\ tickLog' = IF name = TickOrder[1] THEN <<name>> ELSE Append(tickLog, name)
    /\ UNCHANGED backendVars
    /\ UNCHANGED envVars
    /\ UNCHANGED scrapeVars
    /\ UNCHANGED procVars
    /\ UNCHANGED cgroupVars
    /\ UNCHANGED tickLimit
    /\ UNCHANGED catalogVars
    /\ IF name = "accelerator"
       THEN TRUE
       ELSE UNCHANGED <<accelQueried, failRun, failRunWas, lostWrites>>
    /\ IF name = "gpu" THEN TRUE ELSE UNCHANGED gpuAdds

\* Tracing source: the map keyed by pid is read and applied; a tick starts.
updateBPFMetrics(m) ==
    /\ tick < tickLimit
    /\ Step("tracing")
    /\ ContainersMetrics' = ApplyTraceMap(ContainersMetrics, pidCache, m)
    /\ platformUpd' = <<>>
    /\ componentsUpd' = <<>>
    /\ cyclesWas' =
          [c \in DOMAIN ContainersMetrics |-> ContainersMetrics[c].cycles.aggr]
    /\ UNCHANGED <<tick, seq, NodeMetrics, NodeCPUFrequency, accelIn,
                   published>>

\* Tracing source whose map is cumulative: the counters are written as
\* aggregates; a tick starts.
updateBPFMetricsCumulative(m) ==
    /\ tick < tickLimit
    /\ Step("tracing")
    /\ ContainersMetrics' = ApplyTraceMapCumulative(ContainersMetrics, pidCache, m)
    /\ platformUpd' = <<>>
    /\ componentsUpd' = <<>>
    /\ cyclesWas' =
          [c \in DOMAIN ContainersMetrics |-> ContainersMetrics[c].cycles.aggr]
    /\ UNCHANGED <<tick, seq, NodeMetrics, NodeCPUFrequency, accelIn,
                   published>>

\* Cgroup source.
updateCgroupMetrics(reads) ==
    /\ Step("cgroup")
    /\ ContainersMetrics' = ApplyCgroupReads(ContainersMetrics, reads)
    /\ UNCHANGED <<tick, seq, NodeMetrics, NodeCPUFrequency, accelIn,
                   platformUpd, componentsUpd,
                   cyclesWas, published>>

\* accelerator.GetGpus: the devices of the accelerator source, none while
\* the source is turned off.
GetGpus == IF EnabledGPU THEN Gpus ELSE <<>>

\* What the update got from each device: the outcome of its query, or
\* nothing from a device it did not query.
Answers(gpus, outcomes) ==
    [d \in DOMAIN outcomes |->
        IF \E i \in 1..Len(gpus) : gpus[i] = d
        THEN outcomes[d]
        ELSE [ok |-> TRUE, samples |-> NoSamples]]

\* The failed queries in a row of each device after an update that queried
\* gpus: one more after a failure, none after an answer.
FailedInARow(run, gpus, outcomes) ==
    [d \in DOMAIN run |->
        IF \E i \in 1..Len(gpus) : gpus[i] = d
        THEN IF outcomes[d].ok THEN 0 ELSE run[d] + 1
        ELSE run[d]]

\* What the writes of one update find missing, over the samples of the
\* devices that answered.
MissingInUpdate(cm, cache, gpus, outcomes) ==
    UNION {MissingAtWrite(cm, cache, q) :
              q \in UNION {DOMAIN outcomes[gpus[i]].samples :
                              i \in {j \in 1..Len(gpus) : outcomes[gpus[j]].ok}}}

\* Mutant: a failed device query ends the collector task.
updateAcceleratorMetricsStopsOnError(outcomes) ==
    IF \E i \in 1..Len(Gpus) : ~outcomes[Gpus[i]].ok
    THEN /\ tpc = "accelerator"
         /\ tpc' = "off"
         /\ tickLog' = Append(tickLog, "accelerator")
         /\ accelIn' = Answers(GetGpus, outcomes)
         /\ accelQueried' = GetGpus
         /\ failRun' = FailedInARow(failRun, GetGpus, outcomes)
         /\ failRunWas' = failRun
         /\ UNCHANGED <<backendVars, envVars, scrapeVars, procVars,
                        cgroupVars, gpuAdds, tickLimit, lostWrites,
                        catalogVars>>
         /\ UNCHANGED <<tick, seq, ContainersMetrics, NodeMetrics,
                        NodeCPUFrequency, platformUpd, componentsUpd,
                        cyclesWas, published>>
    ELSE /\ Step("accelerator")
         /\ ContainersMetrics' =
               DeviceLoop(ContainersMetrics, pidCache, GetGpus, outcomes,
                          NoSamples)
         /\ accelIn' = Answers(GetGpus, outcomes)
         /\ accelQueried' = GetGpus
         /\ failRun' = FailedInARow(failRun, GetGpus, outcomes)
         /\ failRunWas' = failRun
         /\ lostWrites' = lostWrites \cup
               MissingInUpdate(ContainersMetrics, pidCache, GetGpus, outcomes)
         /\ UNCHANGED <<tick, seq, NodeMetrics, NodeCPUFrequency,
                        platformUpd, componentsUpd, cyclesWas, published>>

\* Collector.updateAcceleratorMetrics; outcomes is what each device's query
\* does in this tick.
updateAcceleratorMetrics(outcomes) ==
    /\ Step("accelerator")
    /\ ContainersMetrics' =
          DeviceLoop(ContainersMetrics, pidCache, GetGpus, outcomes, NoSamples)
    /\ accelIn' = Answers(GetGpus, outcomes)
    /\ accelQueried' = GetGpus
    /\ failRun' = FailedInARow(failRun, GetGpus, outcomes)
    /\ failRunWas' = failRun
    /\ lostWrites' = lostWrites \cup
          MissingInUpdate(ContainersMetrics, pidCache, GetGpus, outcomes)
    /\ UNCHANGED <<tick, seq, NodeMetrics, NodeCPUFrequency,
                   platformUpd, componentsUpd,
                   cyclesWas, published>>

\* Commit phase.
commitPhase ==
    /\ Step("commit")
    /\ ContainersMetrics' = CommitContainers(ContainersMetrics)
    /\ UNCHANGED <<tick, seq, NodeMetrics, NodeCPUFrequency, accelIn,
                   platformUpd, componentsUpd,
                   cyclesWas, published>>

\* Mutant: the roll-up is handed no container record.
updateNodeResourceUsageOfNone ==
    /\ Step("rollup")
    /\ NodeMetrics' =
          AddNodeResUsageFromContainerResUsage(NodeMetrics,
              [c \in {} |-> NewContainerMetrics])
    /\ UNCHANGED <<tick, seq, ContainersMetrics, NodeCPUFrequency, accelIn,
                   platformUpd, componentsUpd,
                   cyclesWas, published>>

\* Collector.updateNodeResourceUsage
updateNodeResourceUsage ==
    /\ Step("rollup")
    /\ NodeMetrics' =
          AddNodeResUsageFromContainerResUsage(NodeMetrics, ContainersMetrics)
    /\ UNCHANGED <<tick, seq, ContainersMetrics, NodeCPUFrequency, accelIn,
                   platformUpd, componentsUpd,
                   cyclesWas, published>>

\* Collector.updatePlatformEnergy; measured is what the meter would return,
\* estimate what the power model would return.
updatePlatformEnergy(measured, estimate) ==
    LET src == EnergySource(acpiSupported, platformModelEnabled)
        nodePlatformEnergy == EnergyMap(src, measured, estimate)
    IN  /\ Step("platform")
        /\ NodeMetrics' = AddLastestPlatformEnergy(NodeMetrics, nodePlatformEnergy)
        /\ platformUpd' =
              Append(platformUpd, [src |-> src, arg |-> nodePlatformEnergy])
        /\ UNCHANGED <<tick, seq, ContainersMetrics, NodeCPUFrequency, accelIn,
                       componentsUpd,
                   cyclesWas, published>>

\* Collector.updateNodeComponentsEnergy
updateNodeComponentsEnergy(measured, estimate) ==
    LET src == EnergySource(BackendSupported(powerImpl), componentModelEnabled)
        nodeComponentsEnergy == EnergyMap(src, measured, estimate)
    IN  /\ Step("components")
        /\ NodeMetrics' = AddNodeComponentsEnergy(NodeMetrics, nodeComponentsEnergy)
        /\ componentsUpd' =
              Append(componentsUpd, [src |-> src, arg |-> nodeComponentsEnergy])
        /\ UNCHANGED <<tick, seq, ContainersMetrics, NodeCPUFrequency, accelIn,
                       platformUpd,
                   cyclesWas, published>>

\* Collector.updateNodeAvgCPUFrequency
updateNodeAvgCPUFrequency(freq) ==
    /\ Step("freq")
    /\ NodeCPUFrequency' = freq
    /\ UNCHANGED <<tick, seq, ContainersMetrics, NodeMetrics, accelIn,
                   platformUpd, componentsUpd,
                   cyclesWas, published>>

\* Mutant: the GPU energy is added whether or not the source is on.
updateNodeGPUEnergyAlways(gpuEnergy) ==
    /\ Step("gpu")
    /\ NodeMetrics' = AddNodeGPUEnergy(NodeMetrics, gpuEnergy)
    /\ gpuAdds' = gpuAdds + 1
    /\ UNCHANGED <<tick, seq, ContainersMetrics, NodeCPUFrequency, accelIn,
                   platformUpd, componentsUpd,
                   cyclesWas, published>>

\* Collector.updateNodeGPUEnergy
updateNodeGPUEnergy(gpuEnergy) ==
    /\ Step("gpu")
    /\ NodeMetrics' = IF EnabledGPU
                      THEN AddNodeGPUEnergy(NodeMetrics, gpuEnergy)
                      ELSE NodeMetrics
    /\ gpuAdds' = IF EnabledGPU THEN gpuAdds + 1 ELSE gpuAdds
    /\ UNCHANGED <<tick, seq, ContainersMetrics, NodeCPUFrequency, accelIn,
                   platformUpd, componentsUpd,
                   cyclesWas, published>>

\* Collector.updateContainerEnergy
updateContainerEnergy ==
    /\ Step("attribute")
    /\ ContainersMetrics' = AttributeEnergy(ContainersMetrics, NodeMetrics)
    /\ UNCHANGED <<tick, seq, NodeMetrics, NodeCPUFrequency, accelIn,
                   platformUpd, componentsUpd,
                   cyclesWas, published>>

\* Publish phase: the snapshot sequence number advances and the committed
\* records are handed over in one swap.
publish ==
    /\ Step("publish")
    /\ seq' = seq + 1
    /\ tick' = tick + 1
    /\ published' = Snapshot(seq + 1, ContainersMetrics, NodeMetrics)
    /\ UNCHANGED <<ContainersMetrics, NodeMetrics, NodeCPUFrequency, accelIn,
                   platformUpd, componentsUpd,
                   cyclesWas>>

collectorVars == <<tpc, tick, seq, ContainersMetrics, NodeMetrics,
                   NodeCPUFrequency, tickLog, accelIn, platformUpd,
                   componentsUpd, cyclesWas, published,
                   accelQueried, failRun, failRunWas, gpuAdds, tickLimit,
                   lostWrites>>

\* A scrape request arrives: the adapter captures the published snapshot.
scrapeBegin ==
    /\ scrapePos = 0
    /\ nScrapes < MaxScrapes
    /\ scrapeView' = published
    /\ scrapeStart' = published
    /\ scrapePos' = 1
    /\ scrapeSeen' = <<>>
    /\ nScrapes' = nScrapes + 1
    /\ UNCHANGED <<backendVars, envVars, collectorVars, procVars, cgroupVars,
                   catalogVars>>

\* The scrape emits its next item.
scrapeRead ==
    /\ scrapePos \in 1..Len(ScrapeItems)
    /\ scrapeSeen' =
          Append(scrapeSeen,
                 ScrapeRead(scrapeView, ContainersMetrics, NodeMetrics,
                            ScrapeItems[scrapePos]))
    /\ scrapePos' = scrapePos + 1
    /\ UNCHANGED <<scrapeView, scrapeStart, nScrapes>>
    /\ UNCHANGED <<backendVars, envVars, collectorVars, procVars, cgroupVars,
                   catalogVars>>

\* The scrape returns; the view is released.
scrapeEnd ==
    /\ scrapePos = Len(ScrapeItems) + 1
    /\ scrapePos' = 0
    /\ UNCHANGED <<scrapeView, scrapeSeen, scrapeStart, nScrapes>>
    /\ UNCHANGED <<backendVars, envVars, collectorVars, procVars, cgroupVars,
                   catalogVars>>

\* ------------------------------------------------------------------------
\* pkg/cgroup: the slice handler
\* ------------------------------------------------------------------------

baseCGroupPath == "/sys/fs/cgroup"
KubePodCGroupPath == "/sys/fs/cgroup/kubepods.slice"
SystemCGroupPath == "/sys/fs/cgroup/system.slice"

\* filepath.Join(baseCGroupPath, name) for the three controllers.
LegacyPath(name) ==
    IF name = "cpu" THEN "/sys/fs/cgroup/cpu"
    ELSE IF name = "memory" THEN "/sys/fs/cgroup/memory"
    ELSE "/sys/fs/cgroup/blkio"

\* var SliceHandlerInstance *SliceHandler, before SetSliceHandler.
NilSliceHandler == [CPUTopPath |-> "", MemoryTopPath |-> "", IOTopPath |-> ""]

\* A handler whose three top paths are the same slice.
SliceHandlerOf(path) ==
    [CPUTopPath |-> path, MemoryTopPath |-> path, IOTopPath |-> path]

\* The handler of the per-controller tree.
LegacySliceHandler ==
    [CPUTopPath |-> LegacyPath("cpu"),
     MemoryTopPath |-> LegacyPath("memory"),
     IOTopPath |-> LegacyPath("blkio")]

\* Mutant: the system slice is looked at before the kube-pods slice.
InitSliceHandlerSystemFirst(kubeOk, systemOk) ==
    IF systemOk THEN SliceHandlerOf(SystemCGroupPath)
    ELSE IF kubeOk THEN SliceHandlerOf(KubePodCGroupPath)
    ELSE LegacySliceHandler

\* InitSliceHandler: the if / else-if / else over the two os.Stat results.
InitSliceHandler(kubeOk, systemOk) ==
    IF kubeOk THEN SliceHandlerOf(KubePodCGroupPath)
    ELSE IF systemOk THEN SliceHandlerOf(SystemCGroupPath)
    ELSE LegacySliceHandler

\* The os.Stat calls InitSliceHandler makes: the second only when the first
\* failed; the per-controller tree is never looked at.
StatCalls(kubeOk, systemOk) ==
    IF kubeOk THEN <<KubePodCGroupPath>>
    ELSE <<KubePodCGroupPath, SystemCGroupPath>>

\* Everything but the reader cache and its ghosts.
notReaderVars == <<backendVars, envVars, collectorVars, scrapeVars, procVars,
                   catalogVars, KubePodExists, SystemExists, LegacyExists,
                   SliceHandlerInstance, statLog, scopeVars>>

\* strings.Index, counted from 1; 0 when substr does not occur in str.
StringsIndex(str, substr) ==
    LET at == {i \in 1..(Len(str) - Len(substr) + 1) :
                  SubSeq(str, i, i + Len(substr) - 1) = substr}
    IN  IF at = {} THEN 0 ELSE CHOOSE i \in at : \A j \in at : i <= j

\* strings.Replace(str, old, new, 1): the first occurrence of old is
\* replaced; an empty old matches at the start.
StringsReplaceOnce(str, old, new) ==
    IF old = new
    THEN str
    ELSE IF old = ""
         THEN new \o str
         ELSE LET i == StringsIndex(str, old)
              IN  IF i = 0
                  THEN str
                  ELSE SubSeq(str, 1, i - 1) \o new
                           \o SubSeq(str, i + Len(old), Len(str))

\* strings.HasSuffix
HasSuffix(str, suffix) ==
    /\ Len(str) >= Len(suffix)
    /\ SubSeq(str, Len(str) - Len(suffix) + 1, Len(str)) = suffix

\* SearchByContainerID: the path of the container's scope below topPath,
\* or "" when the search finds none; found and dir are what the tree holds.
SearchByContainerID(topPath, containerID, found, dir) ==
    IF found
    THEN topPath \o dir \o "/crio-" \o containerID \o ".scope"
    ELSE ""

\* The three readers TryInitStatReaders builds from the CPU path.
NewStatReaders(h, containerCPUPath) ==
    <<[kind |-> "CPUStatReader", Path |-> containerCPUPath],
      [kind |-> "MemoryStatReader",
       Path |-> StringsReplaceOnce(containerCPUPath, h.CPUTopPath,
                                   h.MemoryTopPath)],
      [kind |-> "IOStatReader",
       Path |-> StringsReplaceOnce(containerCPUPath, h.CPUTopPath,
                                   h.IOTopPath)]>>

\* Mutant: the readers are searched for and registered on every call.
TryInitStatReadersAlways(containerID, found, dir) ==
    /\ statReaders' =
          [c \in (DOMAIN statReaders) \cup {containerID} |->
              IF c = containerID
              THEN NewStatReaders(SliceHandlerInstance,
                       SearchByContainerID(SliceHandlerInstance.CPUTopPath,
                                           containerID, found, dir))
              ELSE statReaders[c]]
    /\ searches' = Append(searches, containerID)
    /\ lastTry' = [call |-> "TryInitStatReaders", id |-> containerID,
                   cached |-> containerID \in DOMAIN statReaders]
    /\ UNCHANGED notReaderVars

\* TryInitStatReaders
TryInitStatReaders(containerID, found, dir) ==
    /\ IF containerID \notin DOMAIN statReaders
       THEN /\ statReaders' =
                  [c \in (DOMAIN statReaders) \cup {containerID} |->
                      IF c = containerID
                      THEN NewStatReaders(SliceHandlerInstance,
                               SearchByContainerID(
                                   SliceHandlerInstance.CPUTopPath,
                                   containerID, found, dir))
                      ELSE statReaders[c]]
            /\ searches' = Append(searches, containerID)
       ELSE UNCHANGED <<statReaders, searches>>
    /\ lastTry' = [call |-> "TryInitStatReaders", id |-> containerID,
                   cached |-> containerID \in DOMAIN statReaders]
    /\ UNCHANGED notReaderVars

\* SliceHandler.GetStats: the readers of a cached id are read, an id that is
\* not cached gives an empty map; the cache is not written.
GetStats(containerID) ==
    /\ lastTry' = [call |-> "GetStats", id |-> containerID,
                   cached |-> containerID \in DOMAIN statReaders]
    /\ UNCHANGED <<statReaders, searches>>
    /\ UNCHANGED notReaderVars

\* Everything but the scope search.
notScopeVars == <<backendVars, envVars, collectorVars, scrapeVars, procVars,
                  catalogVars, KubePodExists, SystemExists, LegacyExists,
                  SliceHandlerInstance, statLog, readerVars>>

sliceSuffix == ".slice"
scopeSuffix == ".scope"

\* What a directory entry's name ends in: a scope, a slice, a name that
\* holds ".scope" without ending in it, or none of these.
EntryTypes == {"scope", "slice", "near", "other"}

\* The name of the i-th entry of a directory: entries are listed in lexical
\* order, so the i-th name starts with the i-th letter.
EntryName(i, type) ==
    <<"a", "b", "c", "d", "e", "f", "g", "h">>[i]
        \o (IF type = "scope" THEN scopeSuffix
            ELSE IF type = "slice" THEN sliceSuffix
            ELSE IF type = "near" THEN ".scope.d"
            ELSE "")

\* The directory listings with exactly n entries in all, sub-directories
\* included: a listing is the sequence of its entries, each with its own
\* listing.
RECURSIVE ListingsOf(_)
ListingsOf(n) ==
    IF n = 0
    THEN {<<>>}
    ELSE UNION {{<<[type |-> t, kids |-> c]>> \o r :
                    t \in EntryTypes,
                    c \in ListingsOf(k - 1),
                    r \in ListingsOf(n - k)} : k \in 1..n}

\* The paths filepath.Walk visits below dir, in its order: an entry, then
\* all that lies below it, then the next entry.
RECURSIVE WalkBelow(_, _, _)
WalkBelow(listing, dir, i) ==
    IF i > Len(listing)
    THEN <<>>
    ELSE LET path == dir \o "/" \o EntryName(i, listing[i].type)
         IN  <<path>> \o WalkBelow(listing[i].kids, path, 1)
                     \o WalkBelow(listing, dir, i + 1)

\* The folder the first findContainerScope call starts from.
StartFolder == KubePodCGroupPath

IsBelow(path, topFolder) ==
    /\ Len(path) > Len(topFolder) + 1
    /\ SubSeq(path, 1, Len(topFolder) + 1) = topFolder \o "/"

\* filepath.Walk(topFolder, ...): topFolder first, then the paths below it.
Walk(topFolder) ==
    <<topFolder>> \o SelectSeq(WalkBelow(tree, StartFolder, 1),
                               LAMBDA path : IsBelow(path, topFolder))

\* Mutant: the top folder itself is not skipped.
searchBySuffixIncludesTop(topFolder, suffix) ==
    LET visited == Walk(topFolder)
        hits == {i \in 1..Len(visited) : HasSuffix(visited[i], suffix)}
    IN  IF hits = {}
        THEN ""
        ELSE visited[CHOOSE i \in hits : \A j \in hits : i <= j]

\* searchBySuffix: the first path the walk visits, the top folder apart,
\* that ends in suffix; "" when the walk ends without one.
searchBySuffix(topFolder, suffix) ==
    LET visited == Walk(topFolder)
        hits == {i \in 1..Len(visited) :
                    visited[i] # topFolder /\ HasSuffix(visited[i], suffix)}
    IN  IF hits = {}
        THEN ""
        ELSE visited[CHOOSE i \in hits : \A j \in hits : i <= j]

\* One call of findContainerScope(findPath): it returns the scope it finds,
\* or "" when there is no slice below either, or calls itself on the slice.
findContainerScope ==
    /\ ~findDone
    /\ findPath # ""
    /\ findDepth <= MaxNodes
    /\ LET scopePath == searchBySuffix(findPath, scopeSuffix)
           slicePath == searchBySuffix(findPath, sliceSuffix)
       IN  IF scopePath # ""
           THEN /\ findResult' = scopePath
                /\ findDone' = TRUE
                /\ UNCHANGED <<findPath, findDepth>>
           ELSE IF slicePath = ""
                THEN /\ findResult' = ""
                     /\ findDone' = TRUE
                     /\ UNCHANGED <<findPath, findDepth>>
                ELSE /\ findPath' = slicePath
                     /\ findDepth' = findDepth + 1
                     /\ UNCHANGED <<findResult, findDone>>
    /\ UNCHANGED tree
    /\ UNCHANGED notScopeVars

\* ------------------------------------------------------------------------
\* cmd/exporter.go: main, its deferred calls, the handlers, the ways out
\* ------------------------------------------------------------------------

\* What a step of main leaves alone besides the process state.
mainFrame == <<backendVars, collectorVars, scrapeVars, pidCache, acpiSupported,
               platformModelEnabled, componentModelEnabled,
               KubePodExists, SystemExists, LegacyExists, readerVars,
               scopeVars>>

\* main up to the CPU profile block: finalizing is deferred first; with a CPU
\* profile started, a goroutine waits for SIGINT or SIGTERM.
mainFlags(profiling) ==
    /\ exitCode = "none"
    /\ mpc = "flags"
    /\ deferred' = <<"finalizing">>
    /\ sigHandler' = profiling
    /\ mpc' = "config"
    /\ UNCHANGED <<exitCode, exitCause, collecting, serving, accelInit,
                   unwound, nServed, EnabledGPU>>
    /\ UNCHANGED <<SliceHandlerInstance, statLog>>
    /\ UNCHANGED catalogVars
    /\ UNCHANGED mainFrame

\* config.SetEnabledGPU(*enableGPU) and the other setters, then
\* cgroup.SetSliceHandler().
mainConfig(enableGPU) ==
    /\ exitCode = "none"
    /\ mpc = "config"
    /\ EnabledGPU' = enableGPU
    /\ SliceHandlerInstance' = InitSliceHandler(KubePodExists, SystemExists)
    /\ statLog' = statLog \o StatCalls(KubePodExists, SystemExists)
    /\ mpc' = "model"
    /\ UNCHANGED <<deferred, sigHandler, exitCode, exitCause, collecting,
                   serving, accelInit, unwound, nServed>>
    /\ startupLog' = Append(startupLog, "SetSliceHandler")
    /\ UNCHANGED <<AvailableCounters, catalogReady, estimatorInit>>
    /\ UNCHANGED mainFrame

\* collector_metric.ContainerMetricNames: the CPU time label and the names of
\* the catalogs, once they are populated; nothing before.
ContainerMetricNames ==
    IF catalogReady THEN {"cpuTime"} \cup AvailableCounters ELSE {}

\* if modelServerEndpoint != nil { ...; model.InitEstimateFunctions(
\* collector_metric.ContainerMetricNames, ...) }: the flag's pointer is never
\* nil, the estimator is initialised from the names as they are now.
mainModel ==
    /\ exitCode = "none"
    /\ mpc = "model"
    /\ estimatorInit' = [done |-> TRUE, names |-> ContainerMetricNames]
    /\ startupLog' = Append(startupLog, "InitEstimateFunctions")
    /\ mpc' = "catalog"
    /\ UNCHANGED <<deferred, sigHandler, exitCode, exitCause, collecting,
                   serving, accelInit, unwound, nServed, EnabledGPU>>
    /\ UNCHANGED <<SliceHandlerInstance, statLog>>
    /\ UNCHANGED <<AvailableCounters, catalogReady>>
    /\ UNCHANGED mainFrame

\* collector_metric.InitAvailableParamAndMetrics(): the catalogs are
\* populated; counters is what the probe of the counter source finds.
mainCatalog(counters) ==
    /\ exitCode = "none"
    /\ mpc = "catalog"
    /\ AvailableCounters' = counters
    /\ catalogReady' = TRUE
    /\ startupLog' = Append(startupLog, "InitAvailableParamAndMetrics")
    /\ mpc' = "gpu"
    /\ UNCHANGED <<deferred, sigHandler, exitCode, exitCause, collecting,
                   serving, accelInit, unwound, nServed, EnabledGPU>>
    /\ UNCHANGED <<SliceHandlerInstance, statLog>>
    /\ UNCHANGED estimatorInit
    /\ UNCHANGED mainFrame

\* if *enableGPU { err := accelerator.Init(); if err == nil { defer Shutdown } }
mainGPU(initOk) ==
    /\ exitCode = "none"
    /\ mpc = "gpu"
    /\ accelInit' = (accelInit \/ EnabledGPU)
    /\ deferred' = IF EnabledGPU /\ initOk
                   THEN <<"accelerator.Shutdown">> \o deferred
                   ELSE deferred
    /\ mpc' = "manager"
    /\ UNCHANGED <<sigHandler, exitCode, exitCause, collecting, serving,
                   unwound, nServed, EnabledGPU>>
    /\ UNCHANGED <<SliceHandlerInstance, statLog>>
    /\ UNCHANGED catalogVars
    /\ UNCHANGED mainFrame

\* manager.New, the two MustRegister calls (which panic on failure), then
\* defer m.MetricCollector.Destroy() and defer components.StopPower().
mainManager(registerOk) ==
    /\ exitCode = "none"
    /\ mpc = "manager"
    /\ IF registerOk
       THEN /\ deferred' = <<"StopPower", "Destroy">> \o deferred
            /\ mpc' = "start"
            /\ exitCause' = exitCause
       ELSE /\ deferred' = deferred
            /\ mpc' = "unwind"
            /\ exitCause' = "panic"
    /\ UNCHANGED <<sigHandler, exitCode, collecting, serving, accelInit,
                   unwound, nServed, EnabledGPU>>
    /\ UNCHANGED <<SliceHandlerInstance, statLog>>
    /\ startupLog' = Append(startupLog, "manager.New")
    /\ UNCHANGED <<AvailableCounters, catalogReady, estimatorInit>>
    /\ UNCHANGED mainFrame

\* m.Start(): an error is logged and main goes on.
mainStart(startOk) ==
    /\ exitCode = "none"
    /\ mpc = "start"
    /\ collecting' = startOk
    /\ mpc' = "serve"
    /\ UNCHANGED <<deferred, sigHandler, exitCode, exitCause, serving,
                   accelInit, unwound, nServed, EnabledGPU>>
    /\ UNCHANGED <<SliceHandlerInstance, statLog>>
    /\ startupLog' = Append(startupLog, "Start")
    /\ UNCHANGED <<AvailableCounters, catalogReady, estimatorInit>>
    /\ UNCHANGED mainFrame

\* The handlers are registered and the server goroutine is started; main
\* then waits on the channel.
mainServe ==
    /\ exitCode = "none"
    /\ mpc = "serve"
    /\ serving' = TRUE
    /\ mpc' = "wait"
    /\ UNCHANGED <<deferred, sigHandler, exitCode, exitCause, collecting,
                   accelInit, unwound, nServed, EnabledGPU>>
    /\ UNCHANGED <<SliceHandlerInstance, statLog>>
    /\ UNCHANGED catalogVars
    /\ UNCHANGED mainFrame

\* klog.Fatalf: the log is written and the process exits with status 255;
\* deferred calls do not run.
Fatalf(cause) ==
    /\ exitCode' = "255"
    /\ exitCause' = cause
    /\ UNCHANGED <<mpc, deferred, sigHandler, collecting, serving, accelInit,
                   unwound, EnabledGPU>>

\* err := <-ch; klog.Fatalf("failed to bind ..."): the HTTP server returned.
httpFails ==
    /\ exitCode = "none"
    /\ mpc = "wait"
    /\ serving
    /\ Fatalf("http")
    /\ UNCHANGED nServed
    /\ UNCHANGED <<SliceHandlerInstance, statLog>>
    /\ UNCHANGED catalogVars
    /\ UNCHANGED mainFrame

\* A request on a handler of main: the response is written, and a failed
\* write is fatal.
Handle(name, writeOk) ==
    /\ exitCode = "none"
    /\ serving
    /\ nServed < MaxServed
    /\ nServed' = nServed + 1
    /\ IF writeOk
       THEN UNCHANGED <<mpc, deferred, sigHandler, exitCode, exitCause,
                        collecting, serving, accelInit, unwound, EnabledGPU>>
       ELSE Fatalf(name)
    /\ UNCHANGED <<SliceHandlerInstance, statLog>>
    /\ UNCHANGED catalogVars
    /\ UNCHANGED mainFrame

healthProbe(writeOk) == Handle("healthz", writeOk)

indexPage(writeOk) == Handle("index", writeOk)

\* SIGINT or SIGTERM arrives: with the profile goroutine installed,
\* os.Exit(0); without it the runtime ends the process. Deferred calls do not
\* run in either case.
shutdownSignal ==
    /\ exitCode = "none"
    /\ mpc # "flags"
    /\ exitCode' = IF sigHandler THEN "0" ELSE "2"
    /\ exitCause' = "signal"
    /\ UNCHANGED <<mpc, deferred, sigHandler, collecting, serving, accelInit,
                   unwound, nServed, EnabledGPU>>
    /\ UNCHANGED <<SliceHandlerInstance, statLog>>
    /\ UNCHANGED catalogVars
    /\ UNCHANGED mainFrame

\* main panics: the deferred calls run, the last registered first;
\* components.StopPower() goes through the selected backend, and finalizing
\* ends the process with klog.FlushAndExit(..., 10).
mainUnwind ==
    /\ exitCode = "none"
    /\ mpc = "unwind"
    /\ deferred # <<>>
    /\ unwound' = Append(unwound, Head(deferred))
    /\ deferred' = Tail(deferred)
    /\ exitCode' = IF Head(deferred) = "finalizing" THEN "10" ELSE exitCode
    /\ IF Head(deferred) = "StopPower"
       THEN /\ lastCall' = "StopPower"
            /\ lastDispatch' = DispatchTarget("StopPower", powerImpl)
            /\ powerImpl' = ImplAfterCall("StopPower", powerImpl)
            /\ nCalls' = nCalls + 1
            /\ UNCHANGED <<phase, sysfsSupported, msrSupported, useMSR>>
       ELSE UNCHANGED backendVars
    /\ UNCHANGED <<mpc, sigHandler, exitCause, collecting, serving, accelInit,
                   nServed, EnabledGPU>>
    /\ UNCHANGED <<collectorVars, scrapeVars, pidCache, acpiSupported,
                   platformModelEnabled, componentModelEnabled, cgroupVars,
                   catalogVars>>

\* ------------------------------------------------------------------------
\* Inputs of the environment
\* ------------------------------------------------------------------------

\* What the tracing map can hold for pid q in a tick.
TraceValsOf(q) ==
    IF q = 0 THEN {[cycles |-> 10, cacheMiss |-> 0]}
    ELSE IF q = 1 THEN {[cycles |-> 10, cacheMiss |-> 4],
                        [cycles |-> 30, cacheMiss |-> 0]}
    ELSE {[cycles |-> 10, cacheMiss |-> 0]}

TraceVals == UNION {TraceValsOf(q) : q \in Pids}

\* The tracing maps of a tick: some of the pids, each with its counters.
TraceMaps ==
    {m \in UNION {[P -> TraceVals] : P \in SUBSET Pids} :
        \A q \in DOMAIN m : m[q] \in TraceValsOf(q)}

\* What a cumulative tracing map can hold for pid q in a tick; a value below
\* the one of the previous tick is a counter wrap or a reader restart.
CumulativeValsOf(q) ==
    IF q = 0 THEN {[cycles |-> 10, cacheMiss |-> 4],
                   [cycles |-> 5, cacheMiss |-> 4],
                   [cycles |-> 20, cacheMiss |-> 6]}
    ELSE {[cycles |-> 10, cacheMiss |-> 2],
          [cycles |-> 30, cacheMiss |-> 2]}

\* The cumulative tracing maps of a tick: pids 0 and 1 with their counters.
CumulativeMaps ==
    {m \in [{0, 1} -> CumulativeValsOf(0) \cup CumulativeValsOf(1)] :
        \A q \in DOMAIN m : m[q] \in CumulativeValsOf(q)}

\* The pids that run on the accelerators.
GpuPids == {0, 1}

\* The utilization sample a device reports for pid q.
SampleOf(q) == [SmUtil |-> q + 1, MemUtil |-> 4 - 3 * q]

\* The pid -> sample maps a device can return.
SampleMaps == {[q \in P |-> SampleOf(q)] : P \in SUBSET GpuPids}

\* What a device's query can do: fail, or return a pid -> sample map.
DeviceOutcomes ==
    {[ok |-> FALSE, samples |-> NoSamples]}
        \cup {[ok |-> TRUE, samples |-> m] : m \in SampleMaps}

GpuSet == {Gpus[i] : i \in 1..Len(Gpus)}

AccelOutcomes == [GpuSet -> DeviceOutcomes]

\* A tick in which one device answers for one pid and the other fails.
QuietAccelOutcomes ==
    {[d \in GpuSet |->
        IF d = "gpu0"
        THEN [ok |-> TRUE, samples |-> [q \in {0} |-> SampleOf(q)]]
        ELSE [ok |-> FALSE, samples |-> NoSamples]]}

\* Device queries that fail or answer for pid 0, in every combination.
ErrorAccelOutcomes ==
    [GpuSet -> {[ok |-> FALSE, samples |-> NoSamples],
                [ok |-> TRUE, samples |-> [q \in {0} |-> SampleOf(q)]]}]

\* Aggregated component energies of socket 0 as the backend reports them.
ComponentReadings ==
    {[s \in Sockets |-> r] :
        r \in {[pkg |-> 10, core |-> 10, dram |-> 10],
               [pkg |-> 18, core |-> 15, dram |-> 11]}}

\* Component energies as the power model estimates them.
ComponentEstimates ==
    {[s \in Sockets |-> [pkg |-> 7, core |-> 3, dram |-> 2]]}

\* Platform energy as the meter reports it; the empty map is a failed read.
PlatformReadings ==
    {[s \in Sensors |-> 100], [s \in Sensors |-> 120], EmptyEnergyMap}

\* Platform energy as the power model estimates it.
PlatformEstimates == {[s \in Sensors |-> 90]}

\* Cumulative cgroup CPU time of every container at tick t.
CgroupReads(t) == {[c \in ContainerIDs |-> 10 * (t + 1)]}

\* The cache the collector test installs: pid 0 -> containerA, 1 -> containerB;
\* no other pid is known.
TestCache ==
    [q \in Pids |-> IF q = 0 THEN "containerA"
                    ELSE IF q = 1 THEN "containerB" ELSE ""]

\* The caches in which the pids off the accelerators are unknown.
GpuCaches == {c \in [Pids -> CacheValues] : \A q \in Pids \ GpuPids : c[q] = ""}

\* Caches for the whole tick: the test's, all pids in one container, two pids
\* sharing a container, no pid known.
TickCaches ==
    {TestCache,
     [q \in Pids |-> "containerA"],
     [q \in Pids |-> IF q = 2 THEN "containerB" ELSE "containerA"],
     [q \in Pids |-> ""]}

\* ------------------------------------------------------------------------
\* Specifications
\* ------------------------------------------------------------------------

\* The collector before its first tick.
InitCollector ==
    /\ tpc = TickOrder[1]
    /\ tick = 0
    /\ seq = 0
    /\ ContainersMetrics = [c \in {} |-> NewContainerMetrics]
    /\ NodeMetrics = NewNodeMetrics
    /\ NodeCPUFrequency = 0
    /\ tickLog = <<>>
    /\ accelIn = [d \in GpuSet |-> [ok |-> TRUE, samples |-> NoSamples]]
    /\ platformUpd = <<>>
    /\ componentsUpd = <<>>
    /\ cyclesWas = [c \in {} |-> 0]
    /\ accelQueried = <<>>
    /\ failRun = [d \in GpuSet |-> 0]
    /\ failRunWas = [d \in GpuSet |-> 0]
    /\ gpuAdds = 0
    /\ lostWrites = {}
    /\ published = Snapshot(0, [c \in {} |-> NewContainerMetrics], NewNodeMetrics)
    /\ scrapeView = published
    /\ scrapePos = 0
    /\ scrapeSeen = <<>>
    /\ scrapeStart = published
    /\ nScrapes = 0

\* handler.Init(): an empty reader cache; no call made yet.
InitNoReaders ==
    /\ statReaders = [c \in {} |-> <<>>]
    /\ searches = <<>>
    /\ lastTry = [call |-> "", id |-> "", cached |-> FALSE]

\* No scope is being looked for.
InitNoFind ==
    /\ tree = <<>>
    /\ findPath = ""
    /\ findResult = ""
    /\ findDone = FALSE
    /\ findDepth = 0

\* No main: the process state of a test binary.
InitProcessIdle ==
    /\ mpc = "test"
    /\ deferred = <<>>
    /\ sigHandler = FALSE
    /\ exitCode = "none"
    /\ exitCause = "none"
    /\ collecting = TRUE
    /\ serving = FALSE
    /\ accelInit = TRUE
    /\ unwound = <<>>
    /\ nServed = 0

\* The collector driven directly, as the unit test drives it: no main, no
\* slice handler.
InitNoMain ==
    /\ InitProcessIdle
    /\ KubePodExists = TRUE
    /\ SystemExists = TRUE
    /\ LegacyExists = FALSE
    /\ SliceHandlerInstance = NilSliceHandler
    /\ statLog = <<>>
    /\ InitNoReaders
    /\ InitNoFind

\* config.CPUCycle, config.CPUInstruction and config.CacheMiss, the counters
\* setCollectorMetrics declares: no GPU channel is among them.
TestCounters == {"cycles", "instructions", "cacheMiss"}

\* The catalogs as setCollectorMetrics leaves them; no main, no estimator.
InitTestCatalog ==
    /\ AvailableCounters = TestCounters
    /\ catalogReady = TRUE
    /\ estimatorInit = [done |-> FALSE, names |-> {}]
    /\ startupLog = <<>>

\* The test harness followed for MaxTick ticks.
InitHarness ==
    /\ InitNoMain
    /\ InitTestCatalog
    /\ tickLimit = MaxTick

\* The components package once init() has run, no call made yet.
InitSelected ==
    /\ phase = "run"
    /\ powerImpl = SelectBackend(sysfsSupported, msrSupported, useMSR)
    /\ lastCall = "none"
    /\ lastDispatch = "none"
    /\ nCalls = 0

\* State when the package is loaded: the var block has run, init() has not.
\* The two probes and the flag are the environment; the flag is a package
\* variable, covered here in both settings.
InitBackend ==
    /\ phase = "load"
    /\ sysfsSupported \in BOOLEAN
    /\ msrSupported \in BOOLEAN
    /\ useMSR \in BOOLEAN
    /\ powerImpl = sysfsImpl
    /\ lastCall = "none"
    /\ lastDispatch = "none"
    /\ nCalls = 0
    /\ InitCollector
    /\ InitHarness
    /\ pidCache = TestCache
    /\ EnabledGPU = FALSE
    /\ acpiSupported = FALSE
    /\ platformModelEnabled = FALSE
    /\ componentModelEnabled = FALSE

NextBackend ==
    \/ init
    \/ GetEnergyFromDram
    \/ GetEnergyFromCore
    \/ GetEnergyFromUncore
    \/ GetEnergyFromPackage
    \/ GetNodeComponentsEnergy
    \/ IsSystemCollectionSupported
    \/ StopPower

SpecBackend == InitBackend /\ [][NextBackend]_vars

\* The accelerator source under every resolver cache and every outcome of
\* the two device queries; the other sources are quiet.
InitAccel ==
    /\ sysfsSupported = TRUE
    /\ msrSupported = FALSE
    /\ useMSR = FALSE
    /\ InitSelected
    /\ InitCollector
    /\ InitHarness
    /\ pidCache \in GpuCaches
    /\ EnabledGPU = TRUE
    /\ acpiSupported = TRUE
    /\ platformModelEnabled = FALSE
    /\ componentModelEnabled = FALSE

NextAccel ==
    \/ updateBPFMetrics(NoSamples)
    \/ \E r \in CgroupReads(tick) : updateCgroupMetrics(r)
    \/ \E o \in AccelOutcomes : updateAcceleratorMetrics(o)
    \/ commitPhase
    \/ updateNodeResourceUsage
    \/ updatePlatformEnergy([s \in Sensors |-> 100], [s \in Sensors |-> 90])
    \/ \E m \in {[s \in Sockets |-> [pkg |-> 10, core |-> 10, dram |-> 10]]} :
          \E e \in ComponentEstimates : updateNodeComponentsEnergy(m, e)
    \/ updateNodeAvgCPUFrequency(1000)
    \/ updateNodeGPUEnergy(5)
    \/ updateContainerEnergy
    \/ publish

SpecAccel == InitAccel /\ [][NextAccel]_vars

\* The node energy sources under every combination of supported backends
\* and enabled power models.
InitSources ==
    /\ sysfsSupported \in BOOLEAN
    /\ msrSupported \in BOOLEAN
    /\ useMSR \in BOOLEAN
    /\ InitSelected
    /\ InitCollector
    /\ InitHarness
    /\ pidCache = TestCache
    /\ EnabledGPU \in BOOLEAN
    /\ acpiSupported \in BOOLEAN
    /\ platformModelEnabled \in BOOLEAN
    /\ componentModelEnabled \in BOOLEAN

NextSources ==
    \/ \E m \in {[q \in {0, 1} |-> [cycles |-> 10, cacheMiss |-> 4]]} :
          updateBPFMetrics(m)
    \/ \E r \in CgroupReads(tick) : updateCgroupMetrics(r)
    \/ \E o \in QuietAccelOutcomes : updateAcceleratorMetrics(o)
    \/ commitPhase
    \/ updateNodeResourceUsage
    \/ \E m \in PlatformReadings : \E e \in PlatformEstimates :
          updatePlatformEnergy(m, e)
    \/ \E m \in ComponentReadings : \E e \in ComponentEstimates :
          updateNodeComponentsEnergy(m, e)
    \/ updateNodeAvgCPUFrequency(1000)
    \/ updateNodeGPUEnergy(5)
    \/ updateContainerEnergy
    \/ publish

SpecSources == InitSources /\ [][NextSources]_vars

\* The whole tick with measured node energy, under every resolver cache,
\* every tracing map and every component reading.
InitTick ==
    /\ sysfsSupported = TRUE
    /\ msrSupported = FALSE
    /\ useMSR = FALSE
    /\ InitSelected
    /\ InitCollector
    /\ InitHarness
    /\ pidCache \in TickCaches
    /\ EnabledGPU = TRUE
    /\ acpiSupported = TRUE
    /\ platformModelEnabled = FALSE
    /\ componentModelEnabled = FALSE

NextTick ==
    \/ \E m \in TraceMaps : updateBPFMetrics(m)
    \/ \E r \in CgroupReads(tick) : updateCgroupMetrics(r)
    \/ \E o \in QuietAccelOutcomes : updateAcceleratorMetrics(o)
    \/ commitPhase
    \/ updateNodeResourceUsage
    \/ updatePlatformEnergy([s \in Sensors |-> 100], [s \in Sensors |-> 90])
    \/ \E m \in ComponentReadings : \E e \in ComponentEstimates :
          updateNodeComponentsEnergy(m, e)
    \/ updateNodeAvgCPUFrequency(1000)
    \/ updateNodeGPUEnergy(5)
    \/ updateContainerEnergy
    \/ publish

SpecTick == InitTick /\ [][NextTick]_vars

\* The whole tick with a cumulative tracing map, whose counters can restart
\* between two ticks.
InitRestart ==
    /\ sysfsSupported = TRUE
    /\ msrSupported = FALSE
    /\ useMSR = FALSE
    /\ InitSelected
    /\ InitCollector
    /\ InitHarness
    /\ pidCache = TestCache
    /\ EnabledGPU = TRUE
    /\ acpiSupported = TRUE
    /\ platformModelEnabled = FALSE
    /\ componentModelEnabled = FALSE

NextRestart ==
    \/ \E m \in CumulativeMaps : updateBPFMetricsCumulative(m)
    \/ \E r \in CgroupReads(tick) : updateCgroupMetrics(r)
    \/ \E o \in QuietAccelOutcomes : updateAcceleratorMetrics(o)
    \/ commitPhase
    \/ updateNodeResourceUsage
    \/ updatePlatformEnergy([s \in Sensors |-> 100], [s \in Sensors |-> 90])
    \/ \E m \in ComponentReadings : \E e \in ComponentEstimates :
          updateNodeComponentsEnergy(m, e)
    \/ updateNodeAvgCPUFrequency(1000)
    \/ updateNodeGPUEnergy(5)
    \/ updateContainerEnergy
    \/ publish

SpecRestart == InitRestart /\ [][NextRestart]_vars

\* The collector task and the scrapes, which run in parallel: every
\* interleaving of a scrape's steps with the steps of the tick.
InitScrape ==
    /\ sysfsSupported = TRUE
    /\ msrSupported = FALSE
    /\ useMSR = FALSE
    /\ InitSelected
    /\ InitCollector
    /\ InitHarness
    /\ pidCache = TestCache
    /\ EnabledGPU = TRUE
    /\ acpiSupported = TRUE
    /\ platformModelEnabled = FALSE
    /\ componentModelEnabled = FALSE

NextScrape ==
    \/ \E m \in {[q \in {0, 1} |-> [cycles |-> 10, cacheMiss |-> 4]]} :
          updateBPFMetrics(m)
    \/ \E r \in CgroupReads(tick) : updateCgroupMetrics(r)
    \/ \E o \in QuietAccelOutcomes : updateAcceleratorMetrics(o)
    \/ commitPhase
    \/ updateNodeResourceUsage
    \/ updatePlatformEnergy([s \in Sensors |-> 100], [s \in Sensors |-> 90])
    \/ \E m \in ComponentReadings : \E e \in ComponentEstimates :
          updateNodeComponentsEnergy(m, e)
    \/ updateNodeAvgCPUFrequency(1000)
    \/ updateNodeGPUEnergy(5)
    \/ updateContainerEnergy
    \/ publish
    \/ scrapeBegin
    \/ scrapeRead
    \/ scrapeEnd

SpecScrape == InitScrape /\ [][NextScrape]_vars

\* The tick under every combination of source errors: each device query may
\* fail, the resolver may know no pid, the platform meter's read may fail.
InitErrors ==
    /\ sysfsSupported = TRUE
    /\ msrSupported = FALSE
    /\ useMSR = FALSE
    /\ InitSelected
    /\ InitCollector
    /\ InitHarness
    /\ pidCache \in {TestCache, [q \in Pids |-> ""]}
    /\ EnabledGPU = TRUE
    /\ acpiSupported = TRUE
    /\ platformModelEnabled = FALSE
    /\ componentModelEnabled = FALSE

NextErrors ==
    \/ \E m \in {[q \in {0, 1} |-> [cycles |-> 10, cacheMiss |-> 4]]} :
          updateBPFMetrics(m)
    \/ \E r \in CgroupReads(tick) : updateCgroupMetrics(r)
    \/ \E o \in ErrorAccelOutcomes : updateAcceleratorMetrics(o)
    \/ commitPhase
    \/ updateNodeResourceUsage
    \/ \E m \in PlatformReadings : \E e \in PlatformEstimates :
          updatePlatformEnergy(m, e)
    \/ \E m \in ComponentReadings : \E e \in ComponentEstimates :
          updateNodeComponentsEnergy(m, e)
    \/ updateNodeAvgCPUFrequency(1000)
    \/ updateNodeGPUEnergy(5)
    \/ updateContainerEnergy
    \/ publish

\* The collector task is sequential and each of its calls returns: a step
\* that stays enabled is eventually taken.
SpecErrors == InitErrors /\ [][NextErrors]_vars /\ WF_vars(NextErrors)

\* Catalogs of counters: the test's, an empty one, one that also lists the
\* GPU channels, one that lists a single GPU channel.
Catalogs ==
    {TestCounters, {}, TestCounters \cup GpuChannels, {"smUtil"}}

\* The accelerator source under every catalog of counters: tracing has seen
\* pid 0 only, the devices answer for pid 0, pid 1, both or fail, and the
\* resolver knows the test's pids or none.
InitChannels ==
    /\ sysfsSupported = TRUE
    /\ msrSupported = FALSE
    /\ useMSR = FALSE
    /\ InitSelected
    /\ InitCollector
    /\ InitNoMain
    /\ tickLimit = MaxTick
    /\ AvailableCounters \in Catalogs
    /\ catalogReady = TRUE
    /\ estimatorInit = [done |-> FALSE, names |-> {}]
    /\ startupLog = <<>>
    /\ pidCache \in {TestCache, [q \in Pids |-> ""]}
    /\ EnabledGPU = TRUE
    /\ acpiSupported = TRUE
    /\ platformModelEnabled = FALSE
    /\ componentModelEnabled = FALSE

NextChannels ==
    \/ \E m \in {[q \in {0} |-> [cycles |-> 10, cacheMiss |-> 4]]} :
          updateBPFMetrics(m)
    \/ \E r \in CgroupReads(tick) : updateCgroupMetrics(r)
    \/ \E o \in AccelOutcomes : updateAcceleratorMetrics(o)
    \/ commitPhase
    \/ updateNodeResourceUsage
    \/ updatePlatformEnergy([s \in Sensors |-> 100], [s \in Sensors |-> 90])
    \/ \E m \in {[s \in Sockets |-> [pkg |-> 10, core |-> 10, dram |-> 10]]} :
          \E e \in ComponentEstimates : updateNodeComponentsEnergy(m, e)
    \/ updateNodeAvgCPUFrequency(1000)
    \/ updateNodeGPUEnergy(5)
    \/ updateContainerEnergy
    \/ publish

SpecChannels == InitChannels /\ [][NextChannels]_vars

ReaderIds == {"c1", "c2", "c3"}

\* Where below the top path a container's scope may lie.
ScopeDirs == {"", "/kubepods-besteffort.slice/kubepods-besteffort-pod1.slice"}

\* The reader cache after SetSliceHandler, under each of the three handlers:
\* calls arrive for any id in any order, and a search finds a scope or not.
InitReaders ==
    /\ sysfsSupported = TRUE
    /\ msrSupported = FALSE
    /\ useMSR = FALSE
    /\ InitSelected
    /\ InitCollector
    /\ InitProcessIdle
    /\ InitTestCatalog
    /\ tickLimit = MaxTick
    /\ pidCache = TestCache
    /\ EnabledGPU = FALSE
    /\ acpiSupported = TRUE
    /\ platformModelEnabled = FALSE
    /\ componentModelEnabled = FALSE
    /\ KubePodExists \in BOOLEAN
    /\ SystemExists \in BOOLEAN
    /\ LegacyExists = TRUE
    /\ SliceHandlerInstance = InitSliceHandler(KubePodExists, SystemExists)
    /\ statLog = StatCalls(KubePodExists, SystemExists)
    /\ InitNoReaders
    /\ InitNoFind

NextReaders ==
    \/ \E c \in ReaderIds : \E found \in BOOLEAN : \E dir \in ScopeDirs :
          TryInitStatReaders(c, found, dir)
    \/ \E c \in ReaderIds : GetStats(c)

SpecReaders == InitReaders /\ [][NextReaders]_vars

\* The directory trees of at most most entries below the start folder.
TreesUpTo(most) == UNION {ListingsOf(n) : n \in 0..most}

\* findContainerScope called on the start folder, over every such tree.
InitScope ==
    /\ sysfsSupported = TRUE
    /\ msrSupported = FALSE
    /\ useMSR = FALSE
    /\ InitSelected
    /\ InitCollector
    /\ InitProcessIdle
    /\ InitTestCatalog
    /\ tickLimit = MaxTick
    /\ pidCache = TestCache
    /\ EnabledGPU = FALSE
    /\ acpiSupported = TRUE
    /\ platformModelEnabled = FALSE
    /\ componentModelEnabled = FALSE
    /\ KubePodExists = TRUE
    /\ SystemExists = TRUE
    /\ LegacyExists = FALSE
    /\ SliceHandlerInstance = InitSliceHandler(KubePodExists, SystemExists)
    /\ statLog = StatCalls(KubePodExists, SystemExists)
    /\ InitNoReaders
    /\ tree \in TreesUpTo(MaxNodes)
    /\ findPath = StartFolder
    /\ findResult = ""
    /\ findDone = FALSE
    /\ findDepth = 0

NextScope == findContainerScope

\* A call that can run does run: the search is sequential code.
SpecScope == InitScope /\ [][NextScope]_vars /\ WF_vars(NextScope)

\* The number of failed ticks in a row a source is allowed before it is
\* demoted.
K == 1

\* The accelerator source whose device queries fail or answer in every
\* combination, followed for K + 2 ticks: long enough for a device to fail in
\* more than K ticks in a row and for one more tick to run after that.
InitDemote ==
    /\ sysfsSupported = TRUE
    /\ msrSupported = FALSE
    /\ useMSR = FALSE
    /\ InitSelected
    /\ InitCollector
    /\ InitNoMain
    /\ InitTestCatalog
    /\ tickLimit = K + 2
    /\ pidCache = TestCache
    /\ EnabledGPU = TRUE
    /\ acpiSupported = TRUE
    /\ platformModelEnabled = FALSE
    /\ componentModelEnabled = FALSE

NextDemote ==
    \/ updateBPFMetrics(NoSamples)
    \/ \E r \in CgroupReads(tick) : updateCgroupMetrics(r)
    \/ \E o \in ErrorAccelOutcomes : updateAcceleratorMetrics(o)
    \/ commitPhase
    \/ updateNodeResourceUsage
    \/ updatePlatformEnergy([s \in Sensors |-> 100], [s \in Sensors |-> 90])
    \/ \E m \in {[s \in Sockets |-> [pkg |-> 10, core |-> 10, dram |-> 10]]} :
          \E e \in ComponentEstimates : updateNodeComponentsEnergy(m, e)
    \/ updateNodeAvgCPUFrequency(1000)
    \/ updateNodeGPUEnergy(5)
    \/ updateContainerEnergy
    \/ publish

SpecDemote == InitDemote /\ [][NextDemote]_vars

\* The process: main from its first statement, the collector task it starts,
\* the requests on its handlers, a failing HTTP server and shutdown signals.
InitMain ==
    /\ sysfsSupported = TRUE
    /\ msrSupported = FALSE
    /\ useMSR = FALSE
    /\ InitSelected
    /\ tpc = TickOrder[1]
    /\ tick = 0
    /\ seq = 0
    /\ ContainersMetrics = [c \in {} |-> NewContainerMetrics]
    /\ NodeMetrics = NewNodeMetrics
    /\ NodeCPUFrequency = 0
    /\ tickLog = <<>>
    /\ accelIn = [d \in GpuSet |-> [ok |-> TRUE, samples |-> NoSamples]]
    /\ platformUpd = <<>>
    /\ componentsUpd = <<>>
    /\ cyclesWas = [c \in {} |-> 0]
    /\ accelQueried = <<>>
    /\ failRun = [d \in GpuSet |-> 0]
    /\ failRunWas = [d \in GpuSet |-> 0]
    /\ gpuAdds = 0
    /\ lostWrites = {}
    /\ published = Snapshot(0, [c \in {} |-> NewContainerMetrics], NewNodeMetrics)
    /\ scrapeView = published
    /\ scrapePos = 0
    /\ scrapeSeen = <<>>
    /\ scrapeStart = published
    /\ nScrapes = 0
    /\ pidCache = TestCache
    /\ EnabledGPU = FALSE
    /\ acpiSupported = TRUE
    /\ platformModelEnabled = FALSE
    /\ componentModelEnabled = FALSE
    /\ mpc = "flags"
    /\ deferred = <<>>
    /\ sigHandler = FALSE
    /\ exitCode = "none"
    /\ exitCause = "none"
    /\ collecting = FALSE
    /\ serving = FALSE
    /\ accelInit = FALSE
    /\ unwound = <<>>
    /\ nServed = 0
    /\ KubePodExists \in BOOLEAN
    /\ SystemExists \in BOOLEAN
    /\ LegacyExists \in BOOLEAN
    /\ SliceHandlerInstance = NilSliceHandler
    /\ statLog = <<>>
    /\ InitNoReaders
    /\ InitNoFind
    /\ tickLimit = MaxTick
    /\ AvailableCounters = {}
    /\ catalogReady = FALSE
    /\ estimatorInit = [done |-> FALSE, names |-> {}]
    /\ startupLog = <<>>

NextMain ==
    \/ \E profiling \in BOOLEAN : mainFlags(profiling)
    \/ \E enableGPU \in BOOLEAN : mainConfig(enableGPU)
    \/ mainModel
    \/ \E counters \in {TestCounters, {}} : mainCatalog(counters)
    \/ \E initOk \in BOOLEAN : mainGPU(initOk)
    \/ \E registerOk \in BOOLEAN : mainManager(registerOk)
    \/ \E startOk \in BOOLEAN : mainStart(startOk)
    \/ mainServe
    \/ httpFails
    \/ \E writeOk \in BOOLEAN : healthProbe(writeOk)
    \/ \E writeOk \in BOOLEAN : indexPage(writeOk)
    \/ shutdownSignal
    \/ mainUnwind
    \/ \E m \in {[q \in {0, 1} |-> [cycles |-> 10, cacheMiss |-> 4]]} :
          updateBPFMetrics(m)
    \/ \E r \in CgroupReads(tick) : updateCgroupMetrics(r)
    \/ \E o \in QuietAccelOutcomes : updateAcceleratorMetrics(o)
    \/ commitPhase
    \/ updateNodeResourceUsage
    \/ updatePlatformEnergy([s \in Sensors |-> 100], [s \in Sensors |-> 90])
    \/ \E m \in {[s \in Sockets |-> [pkg |-> 10, core |-> 10, dram |-> 10]]} :
          \E e \in ComponentEstimates : updateNodeComponentsEnergy(m, e)
    \/ updateNodeAvgCPUFrequency(1000)
    \/ updateNodeGPUEnergy(5)
    \/ updateContainerEnergy
    \/ publish

SpecMain == InitMain /\ [][NextMain]_vars

\* ------------------------------------------------------------------------
\* Claims on the backend selection
\* ------------------------------------------------------------------------

\* C1: once init() has run, the sysfs backend is selected whenever it reports
\* supported; otherwise the MSR backend is selected if and only if it reports
\* supported and its flag is enabled; otherwise the dummy backend is selected.
C1_BackendSelection ==
    phase = "run" =>
        /\ (sysfsSupported => powerImpl = sysfsImpl)
        /\ (~sysfsSupported =>
               (powerImpl = msrImpl <=> (msrSupported /\ useMSR)))
        /\ (~sysfsSupported /\ ~(msrSupported /\ useMSR) =>
               powerImpl = dummyImpl)
        /\ powerImpl \in Backends

C1_Witness ==
    /\ phase = "run"
    /\ ~sysfsSupported /\ msrSupported /\ useMSR
    /\ powerImpl = msrImpl

\* C2: after init() the selection never changes, and every package-level
\* call is served by the backend selected at startup.
C2_SelectionFixed ==
    [][phase = "run" =>
          /\ powerImpl' = powerImpl
          /\ (nCalls' # nCalls =>
                 /\ lastCall' \in PowerCalls
                 /\ lastDispatch' =
                      SelectBackend(sysfsSupported, msrSupported, useMSR))]_vars

C2_Witness ==
    /\ phase = "run"
    /\ nCalls >= 2
    /\ lastCall = "StopPower"
    /\ powerImpl = msrImpl
    /\ lastDispatch = msrImpl

\* ------------------------------------------------------------------------
\* Claims on the node energy sources
\* ------------------------------------------------------------------------

StepsDone == {tickLog[i] : i \in 1..Len(tickLog)}

\* What a node-energy write must look like given the measured source's
\* support and the power model's switch.
SourceRule(upd, measuredSupported, modelEnabled, readings, estimates) ==
    /\ Len(upd) = 1
    /\ (measuredSupported =>
           upd[1].src = "measured" /\ upd[1].arg \in readings)
    /\ (upd[1].src = "model" <=> (~measuredSupported /\ modelEnabled))
    /\ (upd[1].src = "model" => upd[1].arg \in estimates)
    /\ (~measuredSupported /\ ~modelEnabled =>
           upd[1].src = "none" /\ upd[1].arg = EmptyEnergyMap)

\* C3: for platform energy and for component energy the measured source
\* wins; the model estimate is used only when the measured source is
\* unsupported and the model is enabled; with neither, the node record is
\* still written exactly once in the tick, with an empty energy map.
C3_MeasuredWins ==
    /\ Len(platformUpd) <= 1
    /\ Len(componentsUpd) <= 1
    /\ ("platform" \in StepsDone =>
           SourceRule(platformUpd, acpiSupported, platformModelEnabled,
                      PlatformReadings, PlatformEstimates))
    /\ ("components" \in StepsDone =>
           SourceRule(componentsUpd, BackendSupported(powerImpl),
                      componentModelEnabled,
                      ComponentReadings, ComponentEstimates))

C3_Witness ==
    /\ tick = 1
    /\ tpc = "freq"
    /\ ~acpiSupported /\ ~platformModelEnabled
    /\ platformUpd = <<[src |-> "none", arg |-> EmptyEnergyMap]>>
    /\ powerImpl = dummyImpl /\ componentModelEnabled
    /\ Len(componentsUpd) = 1
    /\ componentsUpd[1].src = "model"

\* ------------------------------------------------------------------------
\* Claims on the accelerator source
\* ------------------------------------------------------------------------

\* The (device, pid) samples the devices returned.
SamplesOf(outcomes) ==
    {s \in GpuSet \X Pids :
        outcomes[s[1]].ok /\ s[2] \in DOMAIN outcomes[s[1]].samples}

RECURSIVE SumField(_, _, _)
SumField(S, outcomes, field) ==
    IF S = {}
    THEN 0
    ELSE LET s == CHOOSE x \in S : TRUE
         IN  outcomes[s[1]].samples[s[2]][field]
                 + SumField(S \ {s}, outcomes, field)

CurrOf(cm, c, key) == IF c \in DOMAIN cm THEN cm[c][key].curr ELSE 0

AcceleratorRan == tpc = "accelerator" /\ tpc' # tpc

\* C4: the samples of pids the resolver cannot map are added to the
\* system-process record, created if absent; a container no sample resolves
\* to is neither created nor changed.
C4_UnresolvedToSystem ==
    [][AcceleratorRan =>
        LET all == SamplesOf(accelIn')
            unresolved == {s \in all : pidCache[s[2]] = ""}
            sys == systemProcessName
        IN  /\ (unresolved # {} => sys \in DOMAIN ContainersMetrics')
            /\ CurrOf(ContainersMetrics', sys, "smUtil")
                 = CurrOf(ContainersMetrics, sys, "smUtil")
                     + SumField(unresolved, accelIn', "SmUtil")
            /\ CurrOf(ContainersMetrics', sys, "memUtil")
                 = CurrOf(ContainersMetrics, sys, "memUtil")
                     + SumField(unresolved, accelIn', "MemUtil")
            /\ \A c \in ContainerIDs \ {sys} :
                  (\A s \in all : pidCache[s[2]] # c) =>
                      /\ (c \in DOMAIN ContainersMetrics'
                            <=> c \in DOMAIN ContainersMetrics)
                      /\ (c \in DOMAIN ContainersMetrics =>
                            ContainersMetrics'[c] = ContainersMetrics[c])]_vars

C4_Witness ==
    /\ tpc = "commit"
    /\ tick = 1
    /\ \E s \in SamplesOf(accelIn) : pidCache[s[2]] = ""
    /\ \E s \in SamplesOf(accelIn) : pidCache[s[2]] = "containerA"
    /\ DOMAIN ContainersMetrics = {"containerA", systemProcessName}
    /\ ContainersMetrics[systemProcessName].smUtil.curr > 0

\* C5: in a tick where a device's query fails, every container's utilization
\* grows by the samples of the devices that answered and by nothing else;
\* when every query fails no record changes.
C5_FailureIsolation ==
    [][AcceleratorRan /\ (\E d \in GpuSet : ~accelIn'[d].ok) =>
        LET answered == SamplesOf(accelIn')
            target(s) == IF pidCache[s[2]] = "" THEN systemProcessName
                         ELSE pidCache[s[2]]
        IN  /\ \A c \in ContainerIDs :
                  /\ CurrOf(ContainersMetrics', c, "smUtil")
                       = CurrOf(ContainersMetrics, c, "smUtil")
                           + SumField({s \in answered : target(s) = c},
                                      accelIn', "SmUtil")
                  /\ CurrOf(ContainersMetrics', c, "memUtil")
                       = CurrOf(ContainersMetrics, c, "memUtil")
                           + SumField({s \in answered : target(s) = c},
                                      accelIn', "MemUtil")
            /\ ((\A d \in GpuSet : ~accelIn'[d].ok) =>
                   ContainersMetrics' = ContainersMetrics)]_vars

C5_Witness ==
    /\ tpc = "commit"
    /\ accelIn["gpu0"].ok
    /\ DOMAIN accelIn["gpu0"].samples = GpuPids
    /\ ~accelIn["gpu1"].ok
    /\ pidCache = TestCache
    /\ tick = 0
    /\ ContainersMetrics["containerA"].smUtil.curr = 1
    /\ ContainersMetrics["containerB"].smUtil.curr = 2

\* C6: one accelerator update raises each container's SM utilization
\* (memory utilization) by the sum of sm_util (mem_util) over all
\* (device, pid) samples whose pid resolves to that container.
C6_Additive ==
    [][AcceleratorRan =>
        \A c \in ContainerIDs \ {systemProcessName} :
            LET mine == {s \in SamplesOf(accelIn') : pidCache[s[2]] = c}
            IN  /\ CurrOf(ContainersMetrics', c, "smUtil")
                      - CurrOf(ContainersMetrics, c, "smUtil")
                     = SumField(mine, accelIn', "SmUtil")
                /\ CurrOf(ContainersMetrics', c, "memUtil")
                      - CurrOf(ContainersMetrics, c, "memUtil")
                     = SumField(mine, accelIn', "MemUtil")]_vars

C6_Witness ==
    /\ tpc = "commit"
    /\ tick = 0
    /\ \A q \in GpuPids : pidCache[q] = "containerB"
    /\ \A d \in GpuSet : accelIn[d].ok /\ DOMAIN accelIn[d].samples = GpuPids
    /\ ContainersMetrics["containerB"].smUtil.curr = 6
    /\ ContainersMetrics["containerB"].memUtil.curr = 10

\* ------------------------------------------------------------------------
\* Claims on the order of a tick
\* ------------------------------------------------------------------------

PosOf(step) == CHOOSE i \in 1..Len(tickLog) : tickLog[i] = step

\* Step a has run, and ran first, whenever step b has run in this tick.
RunsBefore(a, b) ==
    b \in StepsDone => (a \in StepsDone /\ PosOf(a) < PosOf(b))

\* C7 as stated: tracing, cgroup, accelerator, node components, platform,
\* CPU frequency are read in this order; node component energies are read
\* before platform energy.
C7_SpecReadOrder ==
    /\ RunsBefore("tracing", "cgroup")
    /\ RunsBefore("cgroup", "accelerator")
    /\ RunsBefore("accelerator", "components")
    /\ RunsBefore("components", "platform")
    /\ RunsBefore("platform", "freq")

\* C7 amended: tracing, cgroup, accelerator, platform, node components, CPU
\* frequency are read in this order; platform energy is read before the node
\* component energies.
C7_ReadOrder ==
    /\ RunsBefore("tracing", "cgroup")
    /\ RunsBefore("cgroup", "accelerator")
    /\ RunsBefore("accelerator", "platform")
    /\ RunsBefore("platform", "components")
    /\ RunsBefore("components", "freq")

C7_Witness ==
    /\ tick = 1
    /\ tpc = "gpu"
    /\ {"tracing", "cgroup", "accelerator", "platform", "components", "freq"}
          \subseteq StepsDone

\* The phase a step belongs to, and the rank of the phase in the tick.
PhaseOf(step) ==
    IF step \in {"tracing", "cgroup", "accelerator"} THEN "sample"
    ELSE IF step \in {"platform", "components", "freq", "gpu"} THEN "energy"
    ELSE step

PhasesDone == {PhaseOf(x) : x \in StepsDone}

\* Every step of phase p that has run, ran before every step of phase q that
\* has run, and q has not started unless p has.
PhaseBefore(p, q) ==
    /\ q \in PhasesDone => p \in PhasesDone
    /\ \A i, j \in 1..Len(tickLog) :
          (PhaseOf(tickLog[i]) = p /\ PhaseOf(tickLog[j]) = q) => i < j

Attributed == "attribute" \in StepsDone

Known == DOMAIN ContainersMetrics

PkgOf(c) == ContainersMetrics[c].energy["pkg"].curr

CyclesOf(c) == ContainersMetrics[c].cycles.curr

\* C9: after a tick's attribution each container's package energy is the
\* node package delta times its cycles over the cycles of all containers,
\* and 0 when no container has cycles; 10 and 10 cycles with a delta of 8
\* give 4 and 4, 10 and 30 cycles give 2 and 6.
C9_Proportional ==
    Attributed =>
        LET total == SumCurr(ContainersMetrics, Known, "cycles")
            delta == NodeMetrics.energy["pkg"].curr
        IN  /\ \A c \in Known :
                  /\ PkgOf(c).den > 0
                  /\ (total = 0 => PkgOf(c).num = 0)
                  /\ (total > 0 =>
                        PkgOf(c).num * total = delta * CyclesOf(c) * PkgOf(c).den)
            /\ \A a, b \in Known :
                  (a # b /\ total = CyclesOf(a) + CyclesOf(b) /\ delta = 8) =>
                      /\ (CyclesOf(a) = 10 /\ CyclesOf(b) = 10 =>
                            PkgOf(a) = RInt(4) /\ PkgOf(b) = RInt(4))
                      /\ (CyclesOf(a) = 10 /\ CyclesOf(b) = 30 =>
                            PkgOf(a) = RInt(2) /\ PkgOf(b) = RInt(6))

C9_Witness ==
    /\ Attributed
    /\ Known = {"containerA", "containerB"}
    /\ CyclesOf("containerA") = 10
    /\ CyclesOf("containerB") = 30
    /\ NodeMetrics.energy["pkg"].curr = 8
    /\ PkgOf("containerA") = RInt(2)
    /\ PkgOf("containerB") = RInt(6)

RECURSIVE SumEnergy(_, _)
\* Sum over the container ids in S of the current energy of component comp.
SumEnergy(S, comp) ==
    IF S = {}
    THEN RZero
    ELSE LET c == CHOOSE x \in S : TRUE
         IN  RAdd(ContainersMetrics[c].energy[comp].curr,
                  SumEnergy(S \ {c}, comp))

\* C10: after attribution, for every component the containers' energies sum
\* to the node's energy of that component when some container used the
\* component's resource; otherwise every container's energy is 0.
C10_Conservation ==
    Attributed =>
        \A comp \in Components :
            LET used == SumCurr(ContainersMetrics, Known, ResourceKey(comp))
            IN  /\ (used > 0 =>
                      SumEnergy(Known, comp) = RInt(NodeMetrics.energy[comp].curr))
                /\ (used = 0 =>
                      \A c \in Known :
                          ContainersMetrics[c].energy[comp].curr = RZero)

C10_Witness ==
    /\ Attributed
    /\ Known = ContainerIDs
    /\ \A c \in Known : CyclesOf(c) > 0
    /\ NodeMetrics.energy["pkg"].curr = 8
    /\ \A c \in Known : PkgOf(c).den > 1
    /\ SumEnergy(Known, "pkg") = RInt(8)
    /\ NodeMetrics.energy["dram"].curr > 0
    /\ SumCurr(ContainersMetrics, Known, "cacheMiss") = 0
    /\ \A c \in Known : ContainersMetrics[c].energy["dram"].curr = RZero

\* ------------------------------------------------------------------------
\* Claims on the node roll-up and the channel laws
\* ------------------------------------------------------------------------

\* A snapshot boundary: a tick has published and the next has not started.
SnapshotBoundary == tick > 0 /\ tpc = TickOrder[1]

\* C11: at every snapshot boundary, and from the roll-up to the end of its
\* tick, the node's current usage of every catalog resource equals the sum
\* over all container records of the current usage of that resource.
C11_RollupIsSum ==
    (SnapshotBoundary \/ "rollup" \in StepsDone) =>
        \A k \in UsageKeys :
            NodeMetrics.usage[k] = SumCurr(ContainersMetrics, Known, k)

C11_Witness ==
    /\ SnapshotBoundary
    /\ tick = 2
    /\ Known = ContainerIDs
    /\ CyclesOf("containerA") = 10
    /\ CyclesOf("containerB") = 30
    /\ CyclesOf(systemProcessName) = 10
    /\ NodeMetrics.usage["cycles"] = 50
    /\ NodeMetrics.usage["cacheMiss"] = 0
    /\ NodeMetrics.usage["cgroupCPU"] = 30
    /\ NodeMetrics.usage["smUtil"] = 1

Max0(n) == IF n < 0 THEN 0 ELSE n

\* The aggregate a write of v is compared with: the previous aggregate, or 0
\* when v is lower than it (the producer restarted from zero).
BaselineFor(old, v) == IF v < old.aggr THEN 0 ELSE old.aggr

\* The law on a channel written with aggregate v: no current value from the
\* first aggregate, then the difference to the baseline, never negative.
AggregateLaw(old, new, v) ==
    /\ new.aggr = v
    /\ (old.aggr = 0 => new.curr = 0)
    /\ (old.aggr # 0 => new.curr = Max0(v - BaselineFor(old, v)))

\* The law on a delta-push channel at its commit: old.prev is the aggregate
\* of the previous commit.
CommitLaw(old, new) ==
    /\ new.aggr = old.aggr
    /\ new.curr = Max0(old.aggr - old.prev)
    /\ new.prev = old.aggr

DeltaKeys == {"cycles", "cacheMiss", "smUtil", "memUtil"}

\* Every current value is non-negative.
CurrNonNegative ==
    /\ \A c \in Known : \A k \in UsageKeys : ContainersMetrics[c][k].curr >= 0
    /\ \A comp \in Components : NodeMetrics.energy[comp].curr >= 0
    /\ NodeMetrics.platform.curr >= 0

Restarted(c) ==
    /\ c \in DOMAIN cyclesWas
    /\ ContainersMetrics[c].cycles.aggr < cyclesWas[c]

\* C13: when a cycles aggregate lower than the previous one is reported, the
\* current value committed in that tick is the new aggregate, not a negative
\* value and not 0; a counter going 10 to 5 commits 5, and attribution takes
\* the container's share with 5 in the sum of cycles.
C13_Restart ==
    \A c \in Known :
        ("commit" \in StepsDone /\ Restarted(c)) =>
            /\ CyclesOf(c) = ContainersMetrics[c].cycles.aggr
            /\ CyclesOf(c) > 0
            /\ (cyclesWas[c] = 10 /\ ContainersMetrics[c].cycles.aggr = 5 =>
                   CyclesOf(c) = 5)
            /\ (Attributed =>
                   LET total == SumCurr(ContainersMetrics, Known, "cycles")
                       delta == NodeMetrics.energy["pkg"].curr
                   IN  /\ total >= ContainersMetrics[c].cycles.aggr
                       /\ PkgOf(c).num * total =
                              delta * ContainersMetrics[c].cycles.aggr * PkgOf(c).den)

C13_Witness ==
    /\ tick = 1
    /\ Attributed
    /\ Restarted("containerA")
    /\ cyclesWas["containerA"] = 10
    /\ CyclesOf("containerA") = 5
    /\ CyclesOf("containerB") = 20
    /\ NodeMetrics.energy["pkg"].curr = 8
    /\ PkgOf("containerA") = Rat(8, 5)

\* ------------------------------------------------------------------------
\* Claims on the exposition
\* ------------------------------------------------------------------------

Exited == exitCode # "none"

HasRun(f) == \E i \in 1..Len(unwound) : unwound[i] = f

\* C16 as stated: whenever the process has exited after a shutdown signal or
\* after the HTTP server failed, the current tick was finished and the
\* backend's stop operation was invoked before the exit.
C16_SpecShutdown ==
    (Exited /\ exitCause \in {"signal", "http"}) =>
        /\ tpc = TickOrder[1]
        /\ HasRun("StopPower")
        /\ lastCall = "StopPower"

\* The exit C16 is about, as the code takes it: the server failed in the
\* middle of a tick, and no deferred call ran.
C16_Witness ==
    /\ Exited
    /\ exitCause = "http"
    /\ exitCode = "255"
    /\ collecting
    /\ tpc = "attribute"
    /\ deferred = <<"StopPower", "Destroy", "finalizing">>
    /\ unwound = <<>>
    /\ lastCall = "none"

\* C17 as stated: the process never exits because the collector failed to
\* start or because answering a health or index request failed.
C17_SpecOnlyConfigFatal ==
    Exited => exitCause \notin {"healthz", "index", "start"}

\* The exit C17 is about, as the code takes it: a health response could not
\* be written and the process ended with status 255.
C17_Witness ==
    /\ Exited
    /\ exitCause = "healthz"
    /\ exitCode = "255"
    /\ mpc = "wait"

\* ------------------------------------------------------------------------
\* Claims on the cgroup root
\* ------------------------------------------------------------------------

HandlerSet == mpc \notin {"flags", "config", "test"}

\* C18 as stated: three candidates are probed in order and the first that
\* exists wins; the per-controller tree is chosen if it exists, so the root
\* that is chosen exists.
C18_SpecRootDiscovery ==
    HandlerSet =>
        /\ (KubePodExists =>
               SliceHandlerInstance = SliceHandlerOf(KubePodCGroupPath))
        /\ (~KubePodExists /\ SystemExists =>
               SliceHandlerInstance = SliceHandlerOf(SystemCGroupPath))
        /\ (~KubePodExists /\ ~SystemExists /\ LegacyExists =>
               SliceHandlerInstance = LegacySliceHandler)
        /\ (SliceHandlerInstance = LegacySliceHandler => LegacyExists)

\* C18 amended: two candidates are probed, the kube-pods slice and then, only
\* if it is missing, the system slice; the first of the two that exists gives
\* all three top paths; when both are missing the top paths are the cpu,
\* memory and blkio sub-trees of the per-controller tree, which is not
\* probed and is taken whether or not it exists.
C18_RootDiscovery ==
    HandlerSet =>
        /\ (KubePodExists =>
               /\ SliceHandlerInstance = SliceHandlerOf(KubePodCGroupPath)
               /\ statLog = <<KubePodCGroupPath>>)
        /\ (~KubePodExists /\ SystemExists =>
               /\ SliceHandlerInstance = SliceHandlerOf(SystemCGroupPath)
               /\ statLog = <<KubePodCGroupPath, SystemCGroupPath>>)
        /\ (~KubePodExists /\ ~SystemExists =>
               /\ SliceHandlerInstance.CPUTopPath = "/sys/fs/cgroup/cpu"
               /\ SliceHandlerInstance.MemoryTopPath = "/sys/fs/cgroup/memory"
               /\ SliceHandlerInstance.IOTopPath = "/sys/fs/cgroup/blkio"
               /\ statLog = <<KubePodCGroupPath, SystemCGroupPath>>)

C18_Witness ==
    /\ HandlerSet
    /\ ~KubePodExists
    /\ ~SystemExists
    /\ ~LegacyExists
    /\ SliceHandlerInstance = LegacySliceHandler
    /\ statLog = <<KubePodCGroupPath, SystemCGroupPath>>

\* ------------------------------------------------------------------------
\* Claims on the accelerator source's switch and on repeated failures
\* ------------------------------------------------------------------------

\* The current tick has run updateNodeGPUEnergy.
GpuStepDone == tpc # TickOrder[1] /\ IndexOf(tpc) > IndexOf("gpu")

Queried(d) == \E i \in 1..Len(accelQueried) : accelQueried[i] = d

\* C20 as stated: a device whose query failed in more than K ticks in a row
\* is demoted, so no later accelerator update queries it.
C20_SpecDemotion ==
    \A d \in GpuSet : failRunWas[d] > K => ~Queried(d)

\* A device that failed in K + 1 ticks in a row is queried in the next tick,
\* and fails there again.
C20_Witness ==
    /\ failRunWas["gpu1"] = K + 1
    /\ Queried("gpu1")
    /\ ~accelIn["gpu1"].ok
    /\ failRun["gpu1"] = K + 2
    /\ tick = K + 1

\* ------------------------------------------------------------------------
\* Claims on the records and channels the accelerator update writes to
\* ------------------------------------------------------------------------

\* The container the sample of pid is written to.
TargetOf(pid) == IF pidCache[pid] = "" THEN systemProcessName ELSE pidCache[pid]

InStartupLog(call) == \E i \in 1..Len(startupLog) : startupLog[i] = call

\* first was called, and before every call of second.
CalledBefore(first, second) ==
    \E i \in 1..Len(startupLog) :
        /\ startupLog[i] = first
        /\ \A j \in 1..i : startupLog[j] # second

\* The collector has started a tick.
TickStarted == mpc # "test" /\ (tick > 0 \/ tpc # TickOrder[1])

\* C22 as stated: the slice handler is installed and the catalogs are
\* populated before the estimator is initialised from the container metric
\* names, before the collector manager is created and before the first tick.
C22_SpecStartupOrder ==
    /\ (InStartupLog("InitEstimateFunctions") =>
           /\ CalledBefore("SetSliceHandler", "InitEstimateFunctions")
           /\ CalledBefore("InitAvailableParamAndMetrics",
                           "InitEstimateFunctions"))
    /\ (InStartupLog("manager.New") =>
           /\ CalledBefore("SetSliceHandler", "manager.New")
           /\ CalledBefore("InitAvailableParamAndMetrics", "manager.New"))
    /\ (TickStarted =>
           /\ InStartupLog("SetSliceHandler")
           /\ InStartupLog("InitAvailableParamAndMetrics"))

\* The estimator was initialised from no names, the catalogs were populated
\* with the test's counters after that, and the collector has run a tick.
C22_Witness ==
    /\ estimatorInit = [done |-> TRUE, names |-> {}]
    /\ catalogReady
    /\ AvailableCounters = TestCounters
    /\ ContainerMetricNames # estimatorInit.names
    /\ startupLog = <<"SetSliceHandler", "InitEstimateFunctions",
                      "InitAvailableParamAndMetrics", "manager.New", "Start">>
    /\ tick = 1

\* ------------------------------------------------------------------------
\* Claims on the reader cache
\* ------------------------------------------------------------------------

\* The part of the CPU path below the CPU top path.
BelowCPUTop(path) ==
    SubSeq(path, Len(SliceHandlerInstance.CPUTopPath) + 1, Len(path))

\* The three readers of one id are as the first call must register them.
ReadersWellFormed(r) ==
    /\ Len(r) = 3
    /\ r[1].kind = "CPUStatReader"
    /\ r[2].kind = "MemoryStatReader"
    /\ r[3].kind = "IOStatReader"
    /\ IF r[1].Path = ""
       THEN r[2].Path = "" /\ r[3].Path = ""
       ELSE /\ r[2].Path = SliceHandlerInstance.MemoryTopPath
                               \o BelowCPUTop(r[1].Path)
            /\ r[3].Path = SliceHandlerInstance.IOTopPath
                               \o BelowCPUTop(r[1].Path)

\* C23: a call for an id that is not cached searches once and registers
\* exactly three readers, CPU, memory and IO, the last two on the CPU path
\* moved below the memory and IO top paths; a call for a cached id, found or
\* not by its first search, searches nothing and leaves the cache as it is;
\* no step changes or removes the entry of any id.
C23_TryInitIdempotent ==
    [][/\ \A c \in DOMAIN statReaders :
             c \in DOMAIN statReaders' /\ statReaders'[c] = statReaders[c]
       /\ (lastTry'.call = "TryInitStatReaders" /\ ~lastTry'.cached =>
             /\ DOMAIN statReaders' = DOMAIN statReaders \cup {lastTry'.id}
             /\ lastTry'.id \notin DOMAIN statReaders
             /\ ReadersWellFormed(statReaders'[lastTry'.id])
             /\ searches' = Append(searches, lastTry'.id))
       /\ (lastTry'.call = "TryInitStatReaders" /\ lastTry'.cached =>
             /\ statReaders' = statReaders
             /\ searches' = searches)]_vars

\* Under the per-controller handler, c1 was searched for and not found, c2
\* was found, and a later call for c1 found it cached.
C23_Witness ==
    /\ SliceHandlerInstance = LegacySliceHandler
    /\ searches = <<"c1", "c2">>
    /\ statReaders["c1"][1].Path = ""
    /\ statReaders["c2"][1].Path = "/sys/fs/cgroup/cpu/crio-c2.scope"
    /\ statReaders["c2"][2].Path = "/sys/fs/cgroup/memory/crio-c2.scope"
    /\ statReaders["c2"][3].Path = "/sys/fs/cgroup/blkio/crio-c2.scope"
    /\ lastTry = [call |-> "TryInitStatReaders", id |-> "c1", cached |-> TRUE]

\* ------------------------------------------------------------------------
\* Claims on the scope search
\* ------------------------------------------------------------------------

\* The number of entries of a listing, sub-directories included.
RECURSIVE EntryCount(_)
EntryCount(listing) ==
    IF listing = <<>>
    THEN 0
    ELSE 1 + EntryCount(Head(listing).kids) + EntryCount(Tail(listing))

\* Some entry of the listing, at any depth, is a scope.
RECURSIVE HoldsScope(_)
HoldsScope(listing) ==
    \E i \in 1..Len(listing) :
        listing[i].type = "scope" \/ HoldsScope(listing[i].kids)

\* C24: on every finite tree findContainerScope returns, after at most as
\* many calls of itself as the tree has entries; it returns a path if and
\* only if some entry strictly below the start folder ends in .scope; the
\* path it returns is a path of the tree that ends in .scope; and once it has
\* descended into a .slice sub-folder it returns no path.
C24_FindScopeTerminates ==
    /\ [](findDepth <= EntryCount(tree))
    /\ [](findDone =>
            /\ (findResult # "" <=> HoldsScope(tree))
            /\ (findResult # "" =>
                   /\ HasSuffix(findResult, ".scope")
                   /\ \E i \in 1..Len(WalkBelow(tree, StartFolder, 1)) :
                         WalkBelow(tree, StartFolder, 1)[i] = findResult)
            /\ (findDepth > 0 => findResult = ""))
    /\ <>findDone

\* The search went down two nested slices, past a name that holds .scope
\* without ending in it, and returned no path.
C24_Witness ==
    /\ findDone
    /\ findDepth = 2
    /\ findResult = ""
    /\ findPath = "/sys/fs/cgroup/kubepods.slice/a.slice/a.slice"
    /\ \E i \in 1..Len(tree) : tree[i].type = "near"

====
